---- MODULE Spec2Model ----
(***************************************************************************)
(* A model of flask_pydantic_api: the pydantic_api decorator's request     *)
(* pipeline (get_request_args, input validation, handler call, response   *)
(* rendering), the thread pool sync_async_wrapper hands coroutines to, and *)
(* the OpenAPI document built by get_openapi_schema and extended by        *)
(* add_response_schema, and unindent_text.  Each part has a specification  *)
(* of its own (Spec, PoolSpec, DocSpec, TextSpec) that holds the other     *)
(* parts' variables fixed.                                                 *)
(*                                                                         *)
(* Data encoding.  A Python value is a sequence of strings whose head is   *)
(* its type tag: <<"str", s>>, <<"list", s1, .., sn>> (a list of str),     *)
(* <<"int", n>>, <<"dict", ..>> (a nested dict, opaque) and                *)
(* <<"file", name>> (a werkzeug FileStorage).  A Python dict with string   *)
(* keys is a function from a finite set of names to values.                *)
(***************************************************************************)
EXTENDS Integers, Sequences, FiniteSets, TLC

\* Longest query string, in key=value pairs.
MaxQuery == 2

\* Longest query string of a request that carries a body.
MaxBodyQuery == 1

None == "None"

EmptyDict == [k \in {} |-> <<>>]

Str(s) == <<"str", s>>

FileStorage(name) == <<"file", name>>

\* dict.update(u): the entries of u win.
DictUpdate(d, u) == u @@ d

\* dict.pop(k, default) as the remaining dict.
DictWithout(d, ks) == [k \in (DOMAIN d) \ ks |-> d[k]]

MinOf(S) == CHOOSE i \in S : \A j \in S : i <= j

(***************************************************************************)
(* Pydantic models of the application, as the tests declare them: a model  *)
(* is its ordered list of <<field name, annotation>>.                      *)
(***************************************************************************)
ModelFieldList(model) ==
    CASE model = "Body"         -> << <<"field1", "List[str]">>, <<"field2", "str">> >>
      [] model = "FileRequest"  -> << <<"some_file", "UploadedFile">>, <<"field2", "str">> >>
      [] model = "FileRequest2" -> << <<"some_file", "UploadedFile">> >>
      [] model = "OtherRequest" -> << <<"field1", "str">> >>
      [] model = "ResponseA"    -> << <<"field1", "str">> >>
      [] model = "ResponseB"    -> << <<"field2", "str">> >>
      [] model = "FieldsetResponse" -> << <<"field1", "str">> >>
      [] model = "admin.ResponseA" -> << <<"field2", "str">> >>

\* model.model_fields: field name -> annotation.
model_fields(model) ==
    LET fl == ModelFieldList(model)
    IN  [n \in {fl[i][1] : i \in 1..Len(fl)} |->
            fl[CHOOSE i \in 1..Len(fl) : fl[i][1] = n][2]]

\* typing.get_origin of an annotation; None for a plain class.
get_origin(annotation) ==
    CASE annotation = "List[str]"     -> "list"
      [] annotation = "Set[str]"      -> "set"
      [] annotation = "Dict[str,str]" -> "dict"
      [] annotation = "Optional[str]" -> "Union"
      [] OTHER                        -> None

\* isclass(origin) and issubclass(origin, (list, set, frozenset, dict))
IsCollectionOrigin(origin) == origin \in {"list", "set", "frozenset", "dict"}

\* The file test with the comparison never matching (UploadedFile compared
\* with another class).
model_has_uploaded_file_type_never(model) ==
    \E n \in DOMAIN model_fields(model) : model_fields(model)[n] = "FileStorage"

model_has_uploaded_file_type(model) ==
    \E n \in DOMAIN model_fields(model) : model_fields(model)[n] = "UploadedFile"

(***************************************************************************)
(* The Flask request, as far as the wrapper reads it:                      *)
(*   mimetype        request.mimetype                                      *)
(*   content_length  request.content_length (0: no body)                   *)
(*   json            the body as request.json parses it: its JSON type     *)
(*                   (kind), its Python truth value and, for an object,    *)
(*                   its entries; kind "malformed" is a body that does not *)
(*                   parse                                                 *)
(*   files, form     request.files, request.form                           *)
(*   query           request.args, the key=value pairs in order            *)
(***************************************************************************)
NoJson == [kind |-> "absent", truthy |-> FALSE, data |-> EmptyDict]

JsonObject(d) == [kind |-> "dict", truthy |-> (DOMAIN d # {}), data |-> d]

JsonScalar(kind, truthy) == [kind |-> kind, truthy |-> truthy, data |-> EmptyDict]

\* (request.mimetype or "").lower().startswith("multipart/form-data"); over
\* the mimetypes of the model the prefix test singles out this one.
request_is_multipart(req) == req.mimetype \in {"multipart/form-data"}

\* request.is_json
is_json(req) == req.mimetype \in {"application/json"}

\* to_dict() keeping the last value of every key instead of the first.
to_dict_flat_last(query) ==
    [k \in {query[i][1] : i \in 1..Len(query)} |->
        Str(query[CHOOSE i \in 1..Len(query) :
                     /\ query[i][1] = k
                     /\ \A j \in 1..Len(query) : query[j][1] = k => j <= i][2])]

\* request.args.to_dict(): the first value of every key.
to_dict_flat(query) ==
    [k \in {query[i][1] : i \in 1..Len(query)} |->
        Str(query[MinOf({i \in 1..Len(query) : query[i][1] = k})][2])]

RECURSIVE ValuesOf(_, _)
ValuesOf(query, k) ==
    IF query = <<>> THEN <<>>
    ELSE (IF Head(query)[1] = k THEN <<Head(query)[2]>> ELSE <<>>)
         \o ValuesOf(Tail(query), k)

\* request.args.to_dict(flat=False): the list of all values of every key.
to_dict_lists(query) ==
    [k \in {query[i][1] : i \in 1..Len(query)} |-> <<"list">> \o ValuesOf(query, k)]

\* The dict comprehension of lines 93-101: the keys of the query string that
\* are fields of the request model annotated with a collection generic.
CollectionArgs(query, request_model) ==
    LET all == to_dict_lists(query)
        keep == {k \in DOMAIN all :
                    /\ k \in DOMAIN model_fields(request_model)
                    /\ get_origin(model_fields(request_model)[k]) # None
                    /\ IsCollectionOrigin(get_origin(model_fields(request_model)[k]))}
    IN  [k \in keep |-> all[k]]

\* The selection taking the first declared model whatever the content type.
SelectRequestModel_first(for_models, multipart) == for_models[1]

\* Lines 66-73: the first model, in declared order, that either has no file
\* field or has one while the request is multipart.
SelectRequestModel(for_models, multipart) ==
    LET ok == {i \in 1..Len(for_models) :
                  model_has_uploaded_file_type(for_models[i]) => multipart}
    IN  IF ok = {} THEN None ELSE for_models[MinOf(ok)]

Abort(code, message) ==
    [abort |-> code, message |-> message, args |-> EmptyDict,
     view_kwargs |-> EmptyDict, request_model |-> None]

\* The reading of the data with the query string merged in after a multipart
\* or JSON body as well ("if" in place of the last "elif").
ReadArgs_query_always(req, request_model) ==
    LET from_query == IF req.query = <<>> THEN EmptyDict
                      ELSE IF request_model # None
                      THEN DictUpdate(to_dict_flat(req.query),
                                      CollectionArgs(req.query, request_model))
                      ELSE to_dict_flat(req.query)
    IN  IF request_is_multipart(req)
        THEN [abort |-> 0, message |-> "",
              args |-> DictUpdate(DictUpdate(req.files, req.form), from_query)]
        ELSE IF is_json(req) /\ req.content_length # 0 /\ req.json.kind = "malformed"
        THEN [abort |-> 400, message |-> "Bad Request", args |-> EmptyDict]
        ELSE IF is_json(req) /\ req.content_length # 0 /\ req.json.truthy
        THEN IF req.json.kind # "dict"
             THEN [abort |-> 400, message |-> "JSON request bodies must be a dictionary",
                   args |-> EmptyDict]
             ELSE [abort |-> 0, message |-> "",
                   args |-> DictUpdate(req.json.data, from_query)]
        ELSE [abort |-> 0, message |-> "", args |-> from_query]

\* Lines 79-102: the request data, or the abort raised while reading it.
ReadArgs(req, request_model) ==
    IF request_is_multipart(req)
    THEN [abort |-> 0, message |-> "", args |-> DictUpdate(req.files, req.form)]
    ELSE IF is_json(req) /\ req.content_length # 0 /\ req.json.kind = "malformed"
    THEN [abort |-> 400, message |-> "Bad Request", args |-> EmptyDict]
    ELSE IF is_json(req) /\ req.content_length # 0 /\ req.json.truthy
    THEN IF req.json.kind # "dict"
         THEN [abort |-> 400, message |-> "JSON request bodies must be a dictionary",
               args |-> EmptyDict]
         ELSE [abort |-> 0, message |-> "", args |-> req.json.data]
    ELSE IF req.query # <<>>
    THEN [abort |-> 0, message |-> "",
          args |-> IF request_model # None
                   THEN DictUpdate(to_dict_flat(req.query),
                                   CollectionArgs(req.query, request_model))
                   ELSE to_dict_flat(req.query)]
    ELSE [abort |-> 0, message |-> "", args |-> EmptyDict]

\* The merge without the pop of lines 114-115.
MergePath_keeps_kwargs(args, view_kwargs, merge_path_parameters, rule_arguments) ==
    IF merge_path_parameters /\ DOMAIN view_kwargs # {} /\ rule_arguments # {}
    THEN [args |-> DictUpdate(args, [k \in (DOMAIN view_kwargs) \cap rule_arguments
                                        |-> view_kwargs[k]]),
          view_kwargs |-> view_kwargs]
    ELSE [args |-> args, view_kwargs |-> view_kwargs]

\* Lines 105-115: path arguments move from the view's kwargs into the data.
MergePath(args, view_kwargs, merge_path_parameters, rule_arguments) ==
    IF merge_path_parameters /\ DOMAIN view_kwargs # {} /\ rule_arguments # {}
    THEN [args |-> DictUpdate(args, [k \in (DOMAIN view_kwargs) \cap rule_arguments
                                        |-> view_kwargs[k]]),
          view_kwargs |-> DictWithout(view_kwargs, rule_arguments)]
    ELSE [args |-> args, view_kwargs |-> view_kwargs]

get_request_args(req, view_kwargs, for_models, merge_path_parameters, rule_arguments) ==
    LET multipart == request_is_multipart(req)
        request_model == IF for_models # <<>>
                         THEN SelectRequestModel(for_models, multipart)
                         ELSE None
        read == ReadArgs(req, request_model)
        merged == MergePath(read.args, view_kwargs, merge_path_parameters,
                            rule_arguments)
    IN  IF /\ for_models # <<>>
           /\ Len(for_models) = 1
           /\ model_has_uploaded_file_type(for_models[1])
           /\ ~multipart
        THEN Abort(415, "multipart/form-data expected")
        ELSE IF for_models # <<>> /\ request_model = None
        THEN Abort(415, "Could not match request to a required model")
        ELSE IF read.abort # 0
        THEN Abort(read.abort, read.message)
        ELSE [abort |-> 0, message |-> "", args |-> merged.args,
              view_kwargs |-> merged.view_kwargs, request_model |-> request_model]

(***************************************************************************)
(* Pydantic, as the wrapper uses it.                                       *)
(***************************************************************************)
\* Whether a value is accepted for a field of the given annotation.
FieldAccepts(annotation, value) ==
    CASE annotation = "str"          -> value[1] = "str"
      [] annotation = "List[str]"    -> value[1] = "list"
      [] annotation = "UploadedFile" -> value[1] = "file"
      [] OTHER                       -> FALSE

RECURSIVE FieldErrors(_, _)
FieldErrors(fields, data) ==
    IF fields = <<>> THEN <<>>
    ELSE LET name == Head(fields)[1]
             annotation == Head(fields)[2]
             here == IF name \notin DOMAIN data
                     THEN << <<name, "missing">> >>
                     ELSE IF ~FieldAccepts(annotation, data[name])
                     THEN << <<name, "type">> >>
                     ELSE <<>>
         IN  here \o FieldErrors(Tail(fields), data)

\* e.errors() of model(**data): one entry per missing or ill-typed field,
\* in field order; empty when the data validates.
ValidationErrors(model, data) == FieldErrors(ModelFieldList(model), data)

\* The instance model(**data) of valid data: the declared fields only.
Instance(model, data) ==
    [kind |-> "model", cls |-> model,
     data |-> [n \in DOMAIN model_fields(model) |-> data[n]], text |-> ""]

\* str.split(",") over the strings of the model.
Split(s) ==
    CASE s = "a,b" -> <<"a", "b">>
      [] OTHER     -> <<s>>

\* Lines 161-166: the fields list out of the value found in the request data.
FieldsetsOf(fieldsets_input) ==
    IF fieldsets_input[1] = "str"
    THEN <<"list">> \o Split(fieldsets_input[2])
    ELSE fieldsets_input

\* TypeAdapter(Dict[str, List[str]]).validate_python({name: fieldsets})
FieldsetErrors(name, fieldsets) ==
    IF fieldsets[1] = "list" THEN <<>> ELSE << <<name, "list_type">> >>

(***************************************************************************)
(* Values a handler returns and responses a request ends with.             *)
(***************************************************************************)
NoResult == [kind |-> "none", cls |-> None, data |-> EmptyDict, text |-> ""]

DictResult(d) == [kind |-> "dict", cls |-> None, data |-> d, text |-> ""]

StrResult(s) == [kind |-> "str", cls |-> None, data |-> EmptyDict, text |-> s]

NoResponse ==
    [status |-> 0, kind |-> "none", message |-> "", errors |-> <<>>,
     value |-> NoResult]

\* flask.abort(code, message)
AbortResponse(code, message) ==
    [status |-> code, kind |-> "abort", message |-> message, errors |-> <<>>,
     value |-> NoResult]

\* An exception that leaves wrapped_endpoint: Flask answers 500.
ServerError(message) ==
    [status |-> 500, kind |-> "exception", message |-> message, errors |-> <<>>,
     value |-> NoResult]

\* The error response with the status code fixed instead of configured.
ErrorsResponse_fixed_status(errors, config) ==
    [status |-> 400, kind |-> "errors_json", message |-> "", errors |-> errors,
     value |-> NoResult]

\* Lines 176-180: jsonify({"errors": e.errors()}) with the configured status.
ErrorsResponse(errors, config) ==
    [status |-> IF config.error_status_code = <<>> THEN 400
                ELSE config.error_status_code[1],
     kind |-> "errors_json", message |-> "", errors |-> errors,
     value |-> NoResult]

\* model.model_dump(): the instance's fields as a dict.
model_dump(instance) == DictResult(instance.data)

\* render_fieldset_model(model=instance, fieldsets=fields, ...) of
\* pydantic_enhanced_serializer; the models here declare no fieldsets, so
\* every field is rendered whatever the fields list names.
RenderFieldsetModel(instance, fields) == DictResult(instance.data)

\* Lines 194-207: the data of a model instance.
ResultData(instance, has_renderer, fields) ==
    IF has_renderer THEN RenderFieldsetModel(instance, fields)
    ELSE model_dump(instance)

\* make_response(result_data, status_code)
make_response(result_data, status_code) ==
    [status |-> status_code, kind |-> "json", message |-> "", errors |-> <<>>,
     value |-> result_data]

\* What Flask makes of a value the wrapper returns unchanged: status 200.
Passthrough(result) ==
    [status |-> 200, kind |-> "passthrough", message |-> "", errors |-> <<>>,
     value |-> result]

\* Lines 155-172 and 184-185: the fields list and the request model are
\* validated; the handler's keyword arguments are completed.
ValidateInputs(data, view_kwargs, model, ep, has_renderer) ==
    LET name == ep.request_fields_name
        takes_fields == /\ DOMAIN data # {}
                        /\ has_renderer
                        /\ name # ""
                        /\ name \in DOMAIN data
        fields == IF takes_fields THEN FieldsetsOf(data[name]) ELSE <<"list">>
        rest == IF takes_fields THEN DictWithout(data, {name}) ELSE data
        fields_errors == IF takes_fields THEN FieldsetErrors(name, fields) ELSE <<>>
        validates == /\ fields_errors = <<>>
                     /\ model # None
                     /\ ep.request_model_param_name # None
        model_errors == IF validates THEN ValidationErrors(model, rest) ELSE <<>>
        with_model == IF validates /\ model_errors = <<>>
                      THEN DictUpdate(view_kwargs,
                               [k \in {ep.request_model_param_name} |->
                                   Instance(model, rest)])
                      ELSE view_kwargs
        with_fields == IF ep.fields_in_signature
                       THEN DictUpdate(with_model, [k \in {name} |-> fields])
                       ELSE with_model
    IN  [errors |-> fields_errors \o model_errors,
         body |-> rest,
         fieldsets |-> fields,
         validated |-> IF validates THEN 1 ELSE 0,
         kwargs |-> with_fields]

\* The status code without the per-model lookup.
StatusCodeFor_default(cls, ep) == ep.success_status_code

\* Lines 209-213: the status code of a model instance of class cls.
StatusCodeFor(cls, ep) ==
    IF DOMAIN ep.success_status_code_by_response_model # {}
    THEN IF cls \in DOMAIN ep.success_status_code_by_response_model
         THEN ep.success_status_code_by_response_model[cls]
         ELSE ep.success_status_code
    ELSE ep.success_status_code

\* The rendering with a dict validated against the last declared response
\* model instead of the first.
RenderResult_last_model(res, ep, has_renderer, fields) ==
    LET last == ep.response_models[Len(ep.response_models)]
        as_model == IF ep.response_models # <<>> /\ res.kind = "dict"
                    THEN IF ValidationErrors(last, res.data) = <<>>
                         THEN Instance(last, res.data)
                         ELSE NoResult
                    ELSE res
    IN  IF as_model.kind = "none"
        THEN ServerError("pydantic model error on api response serialization")
        ELSE IF as_model.kind = "model"
        THEN make_response(ResultData(as_model, has_renderer, fields),
                           StatusCodeFor(as_model.cls, ep))
        ELSE Passthrough(as_model)

\* The rendering with make_response applied to every result (line 215 moved
\* out of the isinstance block).
RenderResult_wraps_all(res, ep, has_renderer, fields) ==
    LET first == ep.response_models[1]
        as_model == IF ep.response_models # <<>> /\ res.kind = "dict"
                    THEN IF ValidationErrors(first, res.data) = <<>>
                         THEN Instance(first, res.data)
                         ELSE NoResult
                    ELSE res
    IN  IF as_model.kind = "none"
        THEN ServerError("pydantic model error on api response serialization")
        ELSE IF as_model.kind = "model"
        THEN make_response(ResultData(as_model, has_renderer, fields),
                           StatusCodeFor(as_model.cls, ep))
        ELSE make_response(as_model, ep.success_status_code)

\* Lines 190-224: the response made of the handler's result.
RenderResult(res, ep, has_renderer, fields) ==
    LET first == ep.response_models[1]
        as_model == IF ep.response_models # <<>> /\ res.kind = "dict"
                    THEN IF ValidationErrors(first, res.data) = <<>>
                         THEN Instance(first, res.data)
                         ELSE NoResult
                    ELSE res
    IN  IF as_model.kind = "none"
        THEN ServerError("pydantic model error on api response serialization")
        ELSE IF as_model.kind = "model"
        THEN make_response(ResultData(as_model, has_renderer, fields),
                           StatusCodeFor(as_model.cls, ep))
        ELSE Passthrough(as_model)

(***************************************************************************)
(* The decorated endpoints, the application's configuration and the        *)
(* requests of the model.                                                  *)
(***************************************************************************)
\* get_annotated_models on the request parameter: None, a model, a union.
RequestAnnotations ==
    { <<>>,
      <<"Body">>, <<"FileRequest">>,
      <<"FileRequest", "OtherRequest">>, <<"OtherRequest", "FileRequest">>,
      <<"FileRequest", "FileRequest2">> }

\* The URL rule's arguments, merge_path_parameters, and the keyword arguments
\* an outer decorator of the view adds to those of the rule.
PathSetups ==
    { [rule_arguments |-> {}, merge_path_parameters |-> FALSE, injected |-> {}],
      [rule_arguments |-> {"field2"}, merge_path_parameters |-> FALSE,
       injected |-> {"user"}],
      [rule_arguments |-> {"field2"}, merge_path_parameters |-> TRUE,
       injected |-> {"user"}] }

\* The return annotation's models and the success status codes.
ResponseSetups ==
    { [response_models |-> <<>>, success_status_code |-> 200,
       success_status_code_by_response_model |-> EmptyDict],
      [response_models |-> <<"ResponseA">>, success_status_code |-> 200,
       success_status_code_by_response_model |-> EmptyDict],
      [response_models |-> <<"ResponseA", "ResponseB">>, success_status_code |-> 201,
       success_status_code_by_response_model |-> [m \in {"ResponseB"} |-> 202]] }

Endpoint(models, path, resp, fields_in_signature) ==
    [request_models |-> models,
     request_model_param_name |-> IF models = <<>> THEN None ELSE "body",
     rule_arguments |-> path.rule_arguments,
     injected |-> path.injected,
     merge_path_parameters |-> path.merge_path_parameters,
     response_models |-> resp.response_models,
     success_status_code |-> resp.success_status_code,
     success_status_code_by_response_model |->
         resp.success_status_code_by_response_model,
     request_fields_name |-> "fields",
     fields_in_signature |-> fields_in_signature]

\* The views the application registers: every request annotation under every
\* path setup, every response setup with and without a fields parameter, and
\* views with a fields parameter and no or a one-field request model.
Endpoints ==
    { Endpoint(m, p, CHOOSE r \in ResponseSetups : r.response_models = <<"ResponseA">>,
               FALSE) :
        m \in RequestAnnotations, p \in PathSetups }
    \cup
    { Endpoint(<<"Body">>, CHOOSE p \in PathSetups : p.rule_arguments = {}, r, f) :
        r \in ResponseSetups, f \in BOOLEAN }
    \cup
    { Endpoint(m, CHOOSE p \in PathSetups : p.rule_arguments = {},
               CHOOSE r \in ResponseSetups : r.response_models = <<"ResponseA">>,
               TRUE) :
        m \in { <<>>, <<"OtherRequest">> } }

AppConfigs ==
    { [render_errors |-> FALSE, error_status_code |-> <<>>],
      [render_errors |-> TRUE, error_status_code |-> <<>>],
      [render_errors |-> TRUE, error_status_code |-> <<422>>] }

QueryPairs ==
    { <<"field1", "x">>, <<"field1", "y">>, <<"field2", "x">>, <<"fields", "a,b">> }

RECURSIVE SeqsUpTo(_, _)
SeqsUpTo(S, n) ==
    IF n = 0 THEN { <<>> }
    ELSE SeqsUpTo(S, n - 1) \cup
         { Append(q, x) : q \in {r \in SeqsUpTo(S, n - 1) : Len(r) = n - 1}, x \in S }

QueryStrings == SeqsUpTo(QueryPairs, MaxQuery)

JsonDicts ==
    { EmptyDict,
      [k \in {"field2"} |-> Str("j")],
      [k \in {"field1"} |-> Str("j")],
      [k \in {"field1", "field2"} |->
          IF k = "field1" THEN <<"list", "j", "k">> ELSE Str("j")],
      [k \in {"field1", "fields"} |->
          IF k = "field1" THEN Str("j") ELSE <<"list", "a", "b">>],
      [k \in {"field1", "fields"} |->
          IF k = "field1" THEN Str("j") ELSE <<"dict">>] }

JsonValues ==
    { JsonObject(d) : d \in JsonDicts }
    \cup { JsonScalar(k, t) : k \in {"list", "str", "number", "bool"}, t \in BOOLEAN }
    \cup { JsonScalar("null", FALSE), JsonScalar("malformed", FALSE) }

FormDicts ==
    { EmptyDict,
      [k \in {"field2"} |-> Str("f")],
      [k \in {"some_file", "field2"} |-> Str("f")],
      [k \in {"field2", "fields"} |-> IF k = "fields" THEN Str("a,b") ELSE Str("f")] }

FileDicts == { EmptyDict, [k \in {"some_file"} |-> FileStorage("whatever")] }

Payloads ==
    { [mimetype |-> "multipart/form-data", content_length |-> 1, json |-> NoJson,
       files |-> fl, form |-> fm] : fl \in FileDicts, fm \in FormDicts }
    \cup
    { [mimetype |-> "application/json", content_length |-> 1, json |-> j,
       files |-> EmptyDict, form |-> EmptyDict] : j \in JsonValues }
    \cup
    { [mimetype |-> mt, content_length |-> 0, json |-> NoJson,
       files |-> EmptyDict, form |-> EmptyDict] : mt \in {"application/json", ""} }

\* The requests: every payload with a query string, a short one beside a
\* body.
Requests ==
    { [mimetype |-> pq[1].mimetype, content_length |-> pq[1].content_length,
       json |-> pq[1].json, files |-> pq[1].files, form |-> pq[1].form,
       query |-> pq[2]] :
        pq \in { x \in Payloads \X QueryStrings :
                    x[1].content_length # 0 => Len(x[2]) <= MaxBodyQuery } }

NoRequest ==
    [mimetype |-> "", content_length |-> 0, json |-> NoJson, files |-> EmptyDict,
     form |-> EmptyDict, query |-> <<>>]

\* The keyword arguments wrapped_endpoint is called with: the rule's
\* arguments as matched from the URL and those the outer decorator adds.
ViewKwargs(ep) ==
    [k \in ep.rule_arguments \cup ep.injected |->
        IF k \in ep.rule_arguments THEN Str("p") ELSE Str("u")]

\* What a handler returns: an instance of a response model, a dict, a str.
HandlerResults ==
    { Instance("ResponseA", [k \in {"field1"} |-> Str("v")]),
      Instance("ResponseB", [k \in {"field2"} |-> Str("v")]),
      DictResult([k \in {"field1"} |-> Str("v")]),
      DictResult([k \in {"field2"} |-> Str("v")]),
      StrResult("boo") }

\* An exception raised by the handler instead of a return value.
RaisedResult(exception) ==
    [kind |-> "raised", cls |-> None, data |-> EmptyDict, text |-> exception]

\* How a handler ends: with a return value or with an exception.
HandlerOutcomes ==
    HandlerResults \cup { RaisedResult(e) : e \in {"RuntimeError", "ValueError"} }

(***************************************************************************)
(* sync_async_wrapper and the thread pool it shares.                       *)
(***************************************************************************)
\* ThreadPoolExecutor(max_workers=4)
MaxWorkers == 4

\* Client requests served concurrently, and how deep the nested internal
\* requests of one of them go.
MaxRequests == 2

MaxDepth == 3

ClientRequests == 1..MaxRequests

\* How sync_async_wrapper runs func: called directly when it is no coroutine
\* function; through async_to_sync, which raises RuntimeError when the calling
\* thread already runs an event loop; and then as a task of the executor on
\* whose result the caller blocks.
sync_async_wrapper(is_coroutine_function, running_loop) ==
    IF ~is_coroutine_function THEN "direct"
    ELSE IF ~running_loop THEN "async_to_sync"
    ELSE "executor"

\* Lines 147-174: the except clause takes every RuntimeError that leaves
\* async_to_sync(func)(...), the one func itself raised included, and runs
\* func once more as a task of the executor.
RunsAgain(how, outcome) ==
    how = "async_to_sync" /\ outcome = RaisedResult("RuntimeError")

\* The calling thread runs an event loop: the response is produced inside a
\* coroutine started at the top level or by an enclosing nested request.
RunningLoop(top_async, stack) ==
    \/ top_async
    \/ \E i \in 1..Len(stack) : stack[i] \in {"async_to_sync", "executor"}

(***************************************************************************)
(* The OpenAPI document (openapi.py).  A type annotation is the sequence   *)
(* of its members: <<"str">>, <<"Body">>, and <<"FileRequest",             *)
(* "OtherRequest">> for Union[FileRequest, OtherRequest].                  *)
(***************************************************************************)
HTTP_METHODS == {"get", "post", "patch", "delete", "put"}

\* The subclasses of BaseModel the application declares.
Models ==
    {"Body", "FileRequest", "FileRequest2", "OtherRequest", "ResponseA", "ResponseB",
     "FieldsetResponse", "admin.ResponseA"}

\* pydantic_enhanced_serializer.schema.model_has_fieldsets_defined: the model
\* declares a fieldset_config.
model_has_fieldsets_defined(model) == model \in {"FieldsetResponse"}

\* model.__name__: the class ResponseA of the module admin bears the name of
\* the application's other class ResponseA.
ClassName(model) == IF model = "admin.ResponseA" THEN "ResponseA" ELSE model

\* model.model_config.get("title") or model.__name__; no model of the
\* application configures a title.
Title(model) == ClassName(model)

\* str(status_code)
str(n) ==
    CASE n = 200 -> "200"
      [] n = 201 -> "201"
      [] n = 202 -> "202"
      [] n = 400 -> "400"
      [] n = 500 -> "500"

\* method.lower()
lower(method) ==
    CASE method = "GET"     -> "get"
      [] method = "POST"    -> "post"
      [] method = "PUT"     -> "put"
      [] method = "PATCH"   -> "patch"
      [] method = "DELETE"  -> "delete"
      [] method = "HEAD"    -> "head"
      [] method = "OPTIONS" -> "options"

is_union(annotation) == Len(annotation) > 1

IsModelClass(t) == t \in Models

\* The parameters annotated with a model or with a union that has a model
\* among its members.
ViewModelArgs_some_member(annotations) ==
    SelectSeq(annotations,
              LAMBDA a : /\ a[1] # "return"
                         /\ \E i \in 1..Len(a[2]) : IsModelClass(a[2][i]))

\* Lines 78-87 of utils.py: the parameters annotated with a model or with a
\* union made of models only, in the order of __annotations__.
ViewModelArgs(annotations) ==
    SelectSeq(annotations,
              LAMBDA a : /\ a[1] # "return"
                         /\ a[2] # <<>>
                         /\ \A i \in 1..Len(a[2]) : IsModelClass(a[2][i]))

\* The annotation of the name in func.__annotations__, <<>> when absent.
AnnotationOf(annotations, name) ==
    IF \E i \in 1..Len(annotations) : annotations[i][1] = name
    THEN annotations[CHOOSE i \in 1..Len(annotations) : annotations[i][1] = name][2]
    ELSE <<>>

\* get_annotated_models(func); None is the string None for the parameter name
\* and the empty list for the model lists.
get_annotated_models(annotations) ==
    LET view_model_args == ViewModelArgs(annotations)
    IN  [raises |-> Len(view_model_args) > 1,
         request_model_param_name |->
             IF Len(view_model_args) = 1 THEN view_model_args[1][1] ELSE None,
         request_models |->
             IF Len(view_model_args) = 1
             THEN SelectSeq(view_model_args[1][2], IsModelClass)
             ELSE <<>>,
         response_models |->
             SelectSeq(AnnotationOf(annotations, "return"), IsModelClass)]

\* A URL rule is its segments: <<"static", text>>, or <<"var", converter,
\* name>> for <name> (converter "") and <converter:name>.
RuleText(segment) ==
    IF segment[1] = "static" THEN segment[2]
    ELSE IF segment[2] = "" THEN "<" \o segment[3] \o ">"
    ELSE "<" \o segment[2] \o ":" \o segment[3] \o ">"

\* re.sub(r"<([\w_]+)>", "{\\1}", ...) on one segment: only a variable written
\* without a converter matches the pattern.
SubSegment(segment) ==
    IF segment[1] = "var" /\ segment[2] = ""
    THEN "{" \o segment[3] \o "}"
    ELSE RuleText(segment)

\* Line 43: the path key of the rule.
PathOf(rule) == [i \in 1..Len(rule) |-> SubSegment(rule[i])]

\* rule.arguments
RuleArguments(rule) == {rule[i][3] : i \in {j \in 1..Len(rule) : rule[j][1] = "var"}}

\* The JSON schema pydantic gives a field of the annotation.
PropertySchema(name, annotation) ==
    [title |-> name,
     type |-> CASE annotation = "List[str]" -> "array"
                [] annotation = "int"       -> "integer"
                [] OTHER                    -> "string",
     items |-> IF annotation = "List[str]" THEN "string" ELSE None,
     format |-> IF annotation = "UploadedFile" THEN "binary" ELSE None]

\* Lines 331-339: the property request_body_add_fields_extra_schema adds.
FieldsProperty ==
    [title |-> "fields", type |-> "array", items |-> "string", format |-> None]

\* model.model_json_schema(mode=...): the declared fields, all required, and
\* then what the model_config's json_schema_extra does to the schema; here
\* that is request_body_add_fields_extra_schema once line 80 has installed it
\* (lines 328-339: a property named fields is added unless there is one).
model_json_schema(model, mode, json_schema_extra) ==
    LET declared == model_fields(model)
        names == DOMAIN declared
        with_fields == IF json_schema_extra THEN names \cup {"fields"} ELSE names
    IN  [title |-> Title(model),
         model |-> model,
         mode |-> mode,
         properties |->
             [n \in with_fields |->
                 IF n \in names THEN PropertySchema(n, declared[n])
                 ELSE FieldsProperty],
         required |-> names]

NoRequestBody ==
    [kind |-> "none", description |-> "", content |-> EmptyDict, schema |-> None,
     required |-> FALSE]

\* Lines 64-111: the loop over the request models.  acc holds request_body,
\* components, the models' json_schema_extra and whether a KeyError was raised
\* (line 93 reads the description of a request_body that line 101 made).
RECURSIVE RequestBodyLoop(_, _, _, _)
RequestBodyLoop(request_models, need_fields_parameter, from_query_string, acc) ==
    IF request_models = <<>> \/ acc.raises THEN acc
    ELSE
      LET request_model == Head(request_models)
          title == Title(request_model)
          content_type == IF model_has_uploaded_file_type(request_model)
                          THEN "multipart/form-data"
                          ELSE "application/json"
          extra == [acc.json_schema_extra EXCEPT ![request_model] =
                       @ \/ need_fields_parameter]
          schema == model_json_schema(request_model, "validation",
                                      extra[request_model])
          components == DictUpdate(acc.components, [t \in {title} |-> schema])
          body == acc.request_body
      IN  RequestBodyLoop(
            Tail(request_models), need_fields_parameter, from_query_string,
            IF body.kind = "query"
            THEN [acc EXCEPT !.raises = TRUE, !.components = components,
                             !.json_schema_extra = extra]
            ELSE IF body.kind = "body"
            THEN [acc EXCEPT
                    !.request_body =
                        [body EXCEPT
                           !.description = body.description \o " or " \o title,
                           !.content = DictUpdate(body.content,
                                                  [c \in {content_type} |-> title])],
                    !.components = components,
                    !.json_schema_extra = extra]
            ELSE IF from_query_string
            THEN [acc EXCEPT
                    !.request_body = [NoRequestBody EXCEPT !.kind = "query",
                                                           !.schema = title],
                    !.components = components,
                    !.json_schema_extra = extra]
            ELSE [acc EXCEPT
                    !.request_body =
                        [kind |-> "body",
                         description |-> "A " \o title,
                         content |-> [c \in {content_type} |-> title],
                         schema |-> None,
                         required |-> TRUE],
                    !.components = components,
                    !.json_schema_extra = extra])

\* A response entry: its description and, per content type, the schema: one
\* $ref, or a oneOf list of them.
ResponseEntry(description, refs, one_of) ==
    [description |-> description,
     content |-> IF refs = <<>> THEN EmptyDict
                 ELSE [c \in {"application/json"} |->
                          [oneOf |-> one_of, refs |-> refs]]]

\* The entry of a status code written anew for every model that maps to it.
AppendToEntry_replaces(entry, title) == ResponseEntry("A " \o title, <<title>>, FALSE)

\* Lines 135-158: a further model under a status code that has an entry: the
\* schema becomes (or stays) a oneOf list and gets one more $ref.
AppendToEntry(entry, title) ==
    ResponseEntry(entry.description \o " or " \o title,
                  Append(entry.content["application/json"].refs, title),
                  TRUE)

\* The status code of every response model taken to be the default one.
DocStatusCode_default(response_model, config) == str(config.success_status_code)

\* Lines 127-133: the status code a response model is listed under.
DocStatusCode(response_model, config) ==
    IF DOMAIN config.success_status_code_by_response_model # {}
    THEN IF response_model \in DOMAIN config.success_status_code_by_response_model
         THEN str(config.success_status_code_by_response_model[response_model])
         ELSE str(config.success_status_code)
    ELSE str(config.success_status_code)

\* Lines 113-167: the loop over the response models.
RECURSIVE ResponsesLoop(_, _, _)
ResponsesLoop(response_models, config, acc) ==
    IF response_models = <<>> THEN acc
    ELSE
      LET response_model == Head(response_models)
          title == Title(response_model)
          schema == model_json_schema(response_model, "serialization",
                                      acc.json_schema_extra[response_model])
          status_code == DocStatusCode(response_model, config)
          old == acc.responses[status_code]
          entry ==
              IF status_code \in DOMAIN acc.responses
              THEN AppendToEntry(old, title)
              ELSE ResponseEntry("A " \o title, <<title>>, FALSE)
      IN  ResponsesLoop(
            Tail(response_models), config,
            [acc EXCEPT
               !.responses = DictUpdate(@, [c \in {status_code} |-> entry]),
               !.components = DictUpdate(@, [t \in {title} |-> schema])])

\* Lines 113-172 and 192-193: the responses of the rule.
ResponsesOf(response_models, config, acc) ==
    LET success_status_code == str(config.success_status_code)
        looped == IF response_models # <<>>
                  THEN ResponsesLoop(response_models, config, acc)
                  ELSE [acc EXCEPT
                          !.responses =
                              [c \in {success_status_code} |->
                                  ResponseEntry("Empty Response", <<>>, FALSE)]]
    IN  IF success_status_code \in DOMAIN looped.responses THEN looped
        ELSE [looped EXCEPT
                !.responses = DictUpdate(@, [c \in {success_status_code} |->
                                               ResponseEntry(None, <<>>, FALSE)])]

\* A path parameter that is not marked as required.
PathParameter_optional(name) ==
    [name |-> name, in |-> "path", required |-> "false", type |-> None,
     explode |-> None, schema |-> <<"type", "string">>]

\* A parameter object; a key the code does not write holds None.
PathParameter(name) ==
    [name |-> name, in |-> "path", required |-> "true", type |-> None,
     explode |-> None, schema |-> <<"type", "string">>]

\* Lines 201-214
FieldsQueryParameter ==
    [name |-> "fields", in |-> "query", required |-> "false", type |-> None,
     explode |-> None, schema |-> <<"type", "string">>]

\* Lines 223-230: {"in": "query", "type": "form", "explode": "true",
\* **request_body}
QueryModelParameter(request_body) ==
    [name |-> None, in |-> "query", required |-> None, type |-> "form",
     explode |-> "true", schema |-> <<"$ref", request_body.schema>>]

\* Lines 175-190: the path parameters, in the order of __annotations__.
RECURSIVE PathParameters(_, _, _)
PathParameters(annotations, rule_arguments, request_model_param_name) ==
    IF annotations = <<>> THEN <<>>
    ELSE LET name == Head(annotations)[1]
         IN  (IF /\ name \in rule_arguments
                 /\ name # request_model_param_name
                 /\ name # "return"
              THEN << PathParameter(name) >>
              ELSE <<>>)
             \o PathParameters(Tail(annotations), rule_arguments,
                               request_model_param_name)

(***************************************************************************)
(* unindent_text (utils.py).  A text is a sequence of characters, a line a *)
(* sequence of characters without a line break.                            *)
(***************************************************************************)
IsSpace(ch) == ch = " "

\* str.splitlines(): the lines between the line breaks; a line break at the
\* end of the text does not open a further line.
RECURSIVE SplitLines(_, _)
SplitLines(text, line) ==
    IF text = <<>> THEN (IF line = <<>> THEN <<>> ELSE << line >>)
    ELSE IF Head(text) = "\n" THEN << line >> \o SplitLines(Tail(text), <<>>)
    ELSE SplitLines(Tail(text), Append(line, Head(text)))

\* str.rstrip()
RECURSIVE RStrip(_)
RStrip(line) ==
    IF line # <<>> /\ IsSpace(line[Len(line)])
    THEN RStrip(SubSeq(line, 1, Len(line) - 1))
    ELSE line

\* len(ln) - len(ln.lstrip())
RECURSIVE LeadingSpaces(_)
LeadingSpaces(line) ==
    IF line # <<>> /\ IsSpace(Head(line)) THEN 1 + LeadingSpaces(Tail(line)) ELSE 0

\* not ln or ln.isspace()
IsBlank(line) == \A k \in 1..Len(line) : IsSpace(line[k])

\* Lines 183-184
RECURSIVE DropLeadingBlank(_)
DropLeadingBlank(lines) ==
    IF lines # <<>> /\ IsBlank(Head(lines)) THEN DropLeadingBlank(Tail(lines))
    ELSE lines

\* Lines 185-186
RECURSIVE DropTrailingBlank(_)
DropTrailingBlank(lines) ==
    IF lines # <<>> /\ IsBlank(lines[Len(lines)])
    THEN DropTrailingBlank(SubSeq(lines, 1, Len(lines) - 1))
    ELSE lines

\* "\n".join(lines)
RECURSIVE JoinLines(_)
JoinLines(lines) ==
    IF lines = <<>> THEN <<>>
    ELSE IF Len(lines) = 1 THEN lines[1]
    ELSE lines[1] \o << "\n" >> \o JoinLines(Tail(lines))

\* line[indent + 1:]
CutIndent_further(line, indent) == SubSeq(line, indent + 2, Len(line))

\* line[indent:]
CutIndent(line, indent) == SubSeq(line, indent + 1, Len(line))

\* The lines of the text as unindent_text leaves them (lines 181-190).
UnindentedLines(text) ==
    LET split == SplitLines(text, <<>>)
        stripped == [k \in 1..Len(split) |-> RStrip(split[k])]
        lines == DropTrailingBlank(DropLeadingBlank(stripped))
        indents == {LeadingSpaces(lines[k]) : k \in {j \in 1..Len(lines) : lines[j] # <<>>}}
        indent == IF lines # <<>> THEN MinOf(indents) ELSE 0
    IN  IF indent # 0 THEN [k \in 1..Len(lines) |-> CutIndent(lines[k], indent)]
        ELSE lines

\* unindent_text(text), lines 177-192.
unindent_text(text) == JoinLines(UnindentedLines(text))

\* _deep_update on two dicts whose values are neither dicts nor lists: every
\* key of from_dict is assigned (lines 362-363).
DeepUpdateFlat(into_dict, from_dict) == DictUpdate(into_dict, from_dict)

\* _deep_update on the content of a response entry: a content type that both
\* hold is merged (lines 349-355), another one is assigned (line 363).
DeepUpdateContent(into_dict, from_dict) ==
    [t \in DOMAIN into_dict \cup DOMAIN from_dict |->
        IF t \notin DOMAIN from_dict THEN into_dict[t]
        ELSE IF t \in DOMAIN into_dict THEN DeepUpdateFlat(into_dict[t], from_dict[t])
        ELSE from_dict[t]]

\* _deep_update on a response entry: the description is assigned, the content
\* merged when the entry has one and assigned otherwise.
DeepUpdateEntry(into_dict, from_dict) ==
    [description |-> IF "description" \in DOMAIN from_dict
                     THEN from_dict["description"] ELSE into_dict.description,
     content |-> IF "content" \in DOMAIN from_dict
                 THEN DeepUpdateContent(into_dict.content, from_dict["content"])
                 ELSE into_dict.content]

\* The entry line 363 assigns for a status code the responses do not hold.
AssignedEntry(from_dict) ==
    [description |-> IF "description" \in DOMAIN from_dict
                     THEN from_dict["description"] ELSE None,
     content |-> IF "content" \in DOMAIN from_dict
                 THEN from_dict["content"] ELSE EmptyDict]

\* _deep_update on the responses of an operation (lines 348-363).
DeepUpdateResponses(into_dict, from_dict) ==
    [c \in DOMAIN into_dict \cup DOMAIN from_dict |->
        IF c \notin DOMAIN from_dict THEN into_dict[c]
        ELSE IF c \in DOMAIN into_dict THEN DeepUpdateEntry(into_dict[c], from_dict[c])
        ELSE AssignedEntry(from_dict[c])]

\* The part of the extra under the key; what absent gives when it has none.
ExtraOf(openapi_schema_extra, key, absent) ==
    IF key \in DOMAIN openapi_schema_extra THEN openapi_schema_extra[key] ELSE absent

\* An operation object.  keys is the set of keys the dict holds; parameters
\* and responses name the list and the dict the operation refers to, which
\* several operations may share.  tags_of is 0 when tags is a list of the
\* operation's own, and the index of the rule when the operation refers to
\* the tags list of that rule's configuration.
Operation(keys, parameters, responses, request_body, summary) ==
    [keys |-> keys, tags |-> <<>>, tags_of |-> 0, parameters |-> parameters,
     responses |-> responses, requestBody |-> request_body, summary |-> summary,
     description |-> None, deprecated |-> None]

\* The configuration pydantic_api stores as __pydantic_api__.
EndpointConfig(success_status_code, by_response_model, from_query_string, name) ==
    [success_status_code |-> success_status_code,
     success_status_code_by_response_model |-> by_response_model,
     get_request_model_from_query_string |-> from_query_string,
     name |-> name, tags |-> <<>>, openapi_schema_extra |-> EmptyDict]

\* pydantic_api(tags=..., openapi_schema_extra=...); <<>> and the empty dict
\* stand for None as well, which the generator treats alike (lines 217, 237).
WithExtra(config, tags, openapi_schema_extra) ==
    [config EXCEPT !.tags = tags, !.openapi_schema_extra = openapi_schema_extra]

\* A rule of app.url_map with its view function.  doc is the function's
\* docstring, the empty text when it has none.  keywords holds the keyword
\* arguments of the pydantic_api call that EndpointConfig has no field for:
\* the name of the keyword and its value.
Rule(rule, methods, annotations, config) ==
    [rule |-> rule, methods |-> methods, annotations |-> annotations,
     decorated |-> TRUE, config |-> config, func_name |-> "do_work",
     doc |-> <<>>, keywords |-> EmptyDict]

\* The rule with a view function of that name and docstring, decorated with
\* those further keywords.
ViewNamed(r, func_name, doc, keywords) ==
    [r EXCEPT !.func_name = func_name, !.doc = doc, !.keywords = keywords]

Root == << <<"static", "/">> >>

FooRule == << <<"static", "/foo/">>, <<"var", "", "field2">> >>

TypedRule ==
    << <<"static", "/foo/">>, <<"var", "int", "arg1">>,
       <<"static", "/bar/">>, <<"var", "", "arg2">>,
       <<"static", "/baz/">>, <<"var", "int(signed=True)", "arg3">> >>

DefaultConfig == EndpointConfig(200, EmptyDict, FALSE, None)

Returns(annotation) == << <<"return", annotation>> >>

\* Views that differ in the return annotation and the status codes
\* (test_union_response_same_status_code and the tests around it).
ResponseRules ==
    { Rule(Root, <<"GET", "HEAD", "OPTIONS">>, Returns(r), c) :
        r \in { <<>>, <<"dict">>, <<"ResponseA">>, <<"ResponseA", "ResponseB">>,
                <<"ResponseB", "ResponseA">>,
                <<"ResponseA", "ResponseB", "FieldsetResponse">> },
        c \in { DefaultConfig,
                EndpointConfig(201, [m \in {"ResponseB"} |-> 202], FALSE, "Do Work"),
                EndpointConfig(200, [m \in {"ResponseA", "ResponseB"} |-> 201],
                               FALSE, None) } }

\* Views that differ in the request annotation
\* (test_model_and_uploader_request_body).
RequestRules ==
    { Rule(Root, <<"POST", "OPTIONS">>, << <<"body", m>> >> \o Returns(<<"dict">>),
           DefaultConfig) :
        m \in (RequestAnnotations \ { <<>> }) \cup { <<"OtherRequest", "Body">> } }

\* Views under rules with variables (test_path_args_merge, test_path_args_keep,
\* test_path_args_typed).
PathRules ==
    { Rule(FooRule, ms, a \o Returns(<<"Body">>), DefaultConfig) :
        ms \in { <<"GET", "HEAD", "OPTIONS">>, <<"GET", "POST">> },
        a \in { << <<"field2", <<"str">> >>, <<"body", <<"Body">> >> >>,
                << <<"field2", <<"str">> >>, <<"body", <<"OtherRequest">> >> >>,
                << <<"body", <<"OtherRequest">> >> >>,
                << <<"field2", <<"str">> >> >> } }
    \cup
    { Rule(TypedRule, <<"GET", "HEAD", "OPTIONS">>,
           << <<"arg1", <<"int">> >>, <<"arg2", <<"str">> >>, <<"arg3", <<"int">> >>,
              <<"body", <<"OtherRequest">> >> >> \o Returns(<<"Body">>),
           DefaultConfig) }

\* Views decorated with get_request_model_from_query_string=True
\* (test_request_model_exploded_in_query_string).
QueryStringRules ==
    { Rule(r, ms, a \o Returns(<<"dict">>), EndpointConfig(200, EmptyDict, TRUE, None)) :
        r \in { Root },
        ms \in { <<"GET", "HEAD", "OPTIONS">>, <<"GET", "POST">>, <<"POST", "GET">> },
        a \in { << <<"body", <<"OtherRequest">> >> >>,
                << <<"body", <<"OtherRequest", "Body">> >> >> } }
    \cup
    { Rule(FooRule, <<"GET", "HEAD", "OPTIONS">>,
           << <<"field2", <<"str">> >>, <<"body", <<"OtherRequest">> >> >>
               \o Returns(<<"dict">>),
           EndpointConfig(200, EmptyDict, TRUE, None)) }

\* Views whose response model defines fieldsets
\* (test_fieldsets_added_to_query_string, test_fieldsets_added_to_request_body).
FieldsetRules ==
    { Rule(Root, ms, a \o Returns(<<"FieldsetResponse">>), DefaultConfig) :
        ms \in { <<"GET", "HEAD", "OPTIONS">>, <<"POST", "OPTIONS">>,
                 <<"GET", "POST">>, <<"POST", "GET">>, <<"DELETE", "GET">> },
        a \in { <<>>, << <<"body", <<"OtherRequest">> >> >> } }

\* A rule whose view is not decorated with pydantic_api (Flask's static route).
StaticRule ==
    [rule |-> << <<"static", "/static/">>, <<"var", "path", "filename">> >>,
     methods |-> <<"GET", "HEAD", "OPTIONS">>, annotations |-> <<>>,
     decorated |-> FALSE, config |-> DefaultConfig, func_name |-> "static",
     doc |-> <<>>, keywords |-> EmptyDict]

\* openapi_schema_extra of test_extra_schema, with a further status code: a
\* dict with string keys is a function from the keys it holds.  The schema
\* of a content type is held without the "schema" level between, as in the
\* generated entries.
ResponsesExtra ==
    [k \in {"responses"} |->
        [c \in {"200", "404"} |->
            IF c = "200"
            THEN [e \in {"content"} |->
                     [t \in {"image/*"} |-> [type |-> "string", format |-> "binary"]]]
            ELSE [e \in {"description"} |-> "Not found"]]]

\* An extra with a list and with values that are neither dict nor list.
SummaryExtra ==
    [k \in {"tags", "summary", "deprecated"} |->
        IF k = "tags" THEN <<"extra">> ELSE IF k = "summary" THEN "Other" ELSE "true"]

HeaderParameter ==
    [name |-> "X-Token", in |-> "header", required |-> "false", type |-> None,
     explode |-> None, schema |-> <<"type", "string">>]

\* An extra with a list of parameters.
ParametersExtra == [k \in {"parameters"} |-> << HeaderParameter >>]

Extras == { ResponsesExtra, SummaryExtra, ParametersExtra }

\* Views decorated with tags and openapi_schema_extra (test_extra_schema).
ExtraRules ==
    { Rule(Root, ms, Returns(<<"Body">>),
           WithExtra(EndpointConfig(200, EmptyDict, FALSE, name), tags, extra)) :
        ms \in { <<"POST", "OPTIONS">>, <<"GET", "POST">> },
        name \in { None, "Named" },
        tags \in { <<>>, <<"a">> },
        extra \in Extras \cup { EmptyDict } }

\* An indented text between blank lines, as the tests pass for description
\* and write as docstring.
IndentedText == << "\n", " ", " ", "x", "\n", " ", " " >>

\* Views decorated with or without a name and a description, with or without
\* a docstring (test_name_and_description_in_decorator,
\* test_default_name_from_function_name, test_empty_name_and_description).
NamedRules ==
    { ViewNamed(Rule(Root, <<"GET", "HEAD", "OPTIONS">>, Returns(<<"Body">>),
                     EndpointConfig(200, EmptyDict, FALSE, name)),
                "get_foo", doc, keywords) :
        name \in { None, "Calculate The Foo" },
        doc \in { <<>>, IndentedText },
        keywords \in { EmptyDict, [k \in {"description"} |-> IndentedText] } }

\* A view without tags or extra under another rule.
PlainRule ==
    Rule(FooRule, <<"GET", "POST">>,
         << <<"field2", <<"str">> >> >> \o Returns(<<"Body">>), DefaultConfig)

\* Views whose annotations name no model, one, a union of models, a union
\* with a member that is no model, or models for two parameters, and whose
\* return annotation is a union with members that are no models.
InferenceRules ==
    { Rule(Root, <<"POST", "OPTIONS">>, a \o Returns(r), DefaultConfig) :
        a \in { << <<"count", <<"int">> >>, <<"body", <<"Body">> >> >>,
                << <<"body", <<"OtherRequest", "None">> >> >>,
                << <<"body", <<"Body">> >>, <<"other", <<"OtherRequest">> >> >>,
                << <<"body", <<"OtherRequest", "Body">> >>,
                   <<"other", <<"Body">> >> >> },
        r \in { <<"ResponseA", "None">>, <<"dict", "ResponseB", "ResponseA">> } }

\* Views that return models of the same name, and a view whose request
\* model is its response model.
SharedModelRules ==
    { Rule(Root, <<"GET", "HEAD", "OPTIONS">>,
           Returns(<<"ResponseA", "admin.ResponseA">>), DefaultConfig),
      Rule(FooRule, <<"GET", "HEAD", "OPTIONS">>,
           << <<"field2", <<"str">> >> >> \o Returns(<<"admin.ResponseA">>),
           DefaultConfig),
      Rule(Root, <<"POST", "OPTIONS">>,
           << <<"body", <<"OtherRequest">> >> >> \o Returns(<<"OtherRequest">>),
           DefaultConfig) }

Rules == ResponseRules \cup RequestRules \cup PathRules \cup QueryStringRules
         \cup FieldsetRules \cup ExtraRules \cup InferenceRules
         \cup SharedModelRules

\* The applications: no decorated view, one, one beside the static route, or
\* a view with an extra and one without.
Apps ==
    { <<>>, <<StaticRule>> } \cup { <<r>> : r \in Rules }
    \cup { <<StaticRule, r>> : r \in PathRules }
    \cup { <<r, PlainRule>> : r \in { x \in ExtraRules : x.config.name = None } }
    \cup { <<PlainRule, r>> : r \in { x \in ExtraRules : x.config.name = "Named" } }

\* The paths a caller passes to get_openapi_schema(paths=...): none, or path
\* items written by hand whose operations refer to responses of their own.
NoExtraPaths == [paths |-> EmptyDict, responses |-> EmptyDict, components |-> EmptyDict]

HandWrittenEntry == ResponseEntry("OK", <<>>, FALSE)

ExtraPaths ==
    { NoExtraPaths,
      [paths |->
          [p \in { <<"/health">> } |->
              [m \in {"get", "options"} |->
                  IF m = "get"
                  THEN Operation({"summary", "responses"}, 0, 11, NoRequestBody, "Health")
                  ELSE Operation({"responses"}, 0, 12, NoRequestBody, None)]],
       responses |->
          [i \in {11, 12} |-> [c \in {"200"} |-> HandWrittenEntry]],
       components |-> EmptyDict],
      [paths |->
          [p \in { <<"/ping">> } |->
              [m \in {"get", "post", "head"} |->
                  IF m = "get"
                  THEN Operation({}, 0, 13, NoRequestBody, None)
                  ELSE IF m = "post"
                  THEN Operation({"summary"}, 0, 14, NoRequestBody, "Ping")
                  ELSE Operation({"responses"}, 0, 15, NoRequestBody, None)]],
       responses |->
          [i \in {13, 14, 15} |->
              IF i = 15 THEN [c \in {"200"} |-> HandWrittenEntry] ELSE EmptyDict],
       components |-> EmptyDict] }

\* A schema a caller writes by hand.
HandWrittenSchema ==
    [title |-> "Error", model |-> None, mode |-> None,
     properties |-> [n \in {"message"} |-> PropertySchema("message", "str")],
     required |-> {"message"}]

\* The components a caller passes to get_openapi_schema(components=...):
\* schemas of its own, or security schemes only.
ExtraComponents ==
    { [NoExtraPaths EXCEPT
         !.components = [k \in {"schemas"} |-> [t \in {"Error"} |-> HandWrittenSchema]]],
      [NoExtraPaths EXCEPT
         !.components = [k \in {"securitySchemes"} |-> [t \in {"basic"} |-> "http"]]] }

\* The apidocs route has not answered.
NoApidocsResponse == [status |-> 0, content_type |-> "", document |-> 0]

\* The class of the object get_openapi_schema returns: the dict literal of
\* openapi.py:310-320.
SchemaClass == "dict"

\* hasattr(obj, name) for an object of that class: model_dump_json is a
\* method of pydantic's BaseModel, which a dict does not have.
HasAttribute(class, name) ==
    \/ class = "BaseModel" /\ name \in {"model_dump_json", "model_dump"}
    \/ class = "dict" /\ name \in {"get", "update", "pop", "keys", "items"}

(***************************************************************************)
(* State.                                                                  *)
(***************************************************************************)
VARIABLES
    endpoint,               \* the decorated view: wrapped_endpoint's closure
    app_config,             \* current_app.config
    render_fieldset_model,  \* whether pydantic_enhanced_serializer is importable
    pc,                     \* where the request in progress stands
    request,                \* flask.request
    view_kwargs,            \* the kwargs Flask calls wrapped_endpoint with
    body,                   \* the request data (args of get_request_args)
    kwargs,                 \* the handler's keyword arguments
    request_model,          \* the request model selected
    fieldsets,              \* the fields list
    result,                 \* the handler's return value
    response,               \* what the request ended with
    handler_calls,          \* calls of view_func for this request
    validations,            \* request-model validations for this request
    phase,                  \* per client request: idle, run, wait (on the pool), done
    nesting,                \* per client request: nested requests still to be issued
    top_level_async,        \* per client request: its response is produced in an event loop
    call_stack,             \* per client request: how each nested request in progress runs
    executor_queue,         \* executor's work queue: the requests whose task awaits a worker
    executor_busy,          \* executor's workers running a task
    url_map,                \* current_app.url_map: the rules with their views
    schema_kwargs,          \* the paths and components passed to get_openapi_schema
    json_schema_extra,      \* per model: model_config holds the fields partial
    doc_pc,                 \* where the generation of the document stands
    rule_index,             \* the rule the generator is at
    methods_left,           \* the methods of that rule still to be written
    paths,                  \* path key -> method -> operation
    parameters,             \* the parameters lists the operations refer to
    responses,              \* the responses dicts the operations refer to
    request_body,           \* request_body of the rule the generator is at
    components,             \* components.schemas: title -> schema
    calls,                  \* the add_response_schema calls made on the document
    decorated_config,       \* the rules with their views as pydantic_api left them
    apidocs_response,       \* what the apidocs blueprint answered for /openapi.json
    documents,              \* the documents get_openapi_schema has returned so far
    text,                   \* the argument of unindent_text
    unindented,             \* what unindent_text returned
    view_models,            \* per rule: what get_annotated_models returned at decoration
    text_pc                 \* whether unindent_text has been called, and on what

pipeline_vars ==
    << endpoint, app_config, render_fieldset_model, pc, request, view_kwargs, body,
       kwargs, request_model, fieldsets, result, response, handler_calls,
       validations >>

pool_vars ==
    << phase, nesting, top_level_async, call_stack, executor_queue, executor_busy >>

doc_vars ==
    << url_map, schema_kwargs, json_schema_extra, doc_pc, rule_index, methods_left,
       paths, parameters, responses, request_body, components, calls, documents,
       decorated_config, apidocs_response, view_models >>

text_vars == << text, unindented, text_pc >>

vars == << pipeline_vars, pool_vars, doc_vars, text_vars >>

\* unindent_text has not been called.
TextIdle ==
    /\ text = <<>>
    /\ unindented = <<>>
    /\ text_pc = "idle"

\* No document has been generated: the models are as declared.
DocIdle ==
    /\ json_schema_extra = [m \in Models |-> FALSE]
    /\ doc_pc = "rules"
    /\ rule_index = 1
    /\ methods_left = <<>>
    /\ paths = EmptyDict
    /\ parameters = EmptyDict
    /\ responses = EmptyDict
    /\ request_body = NoRequestBody
    /\ components = EmptyDict
    /\ calls = <<>>
    /\ documents = <<>>
    /\ decorated_config = url_map
    /\ apidocs_response = NoApidocsResponse
    /\ view_models = <<>>

\* No request is in flight and the executor is idle.
PoolIdle ==
    /\ phase = [r \in ClientRequests |-> "idle"]
    /\ nesting = [r \in ClientRequests |-> 0]
    /\ top_level_async = [r \in ClientRequests |-> FALSE]
    /\ call_stack = [r \in ClientRequests |-> <<>>]
    /\ executor_queue = <<>>
    /\ executor_busy = 0

\* No request is being handled by wrapped_endpoint.
PipelineIdle ==
    /\ pc = "idle"
    /\ request = NoRequest
    /\ view_kwargs = EmptyDict
    /\ body = EmptyDict
    /\ kwargs = EmptyDict
    /\ request_model = None
    /\ fieldsets = <<"list">>
    /\ result = NoResult
    /\ response = NoResponse
    /\ handler_calls = 0
    /\ validations = 0

Init ==
    /\ endpoint \in Endpoints
    /\ app_config \in AppConfigs
    /\ render_fieldset_model \in BOOLEAN
    /\ PipelineIdle
    /\ PoolIdle
    /\ url_map = <<>>
    /\ schema_kwargs = NoExtraPaths
    /\ DocIdle
    /\ TextIdle

\* Flask routes a request to wrapped_endpoint.
ReceiveRequest ==
    /\ pc = "idle"
    /\ \E req \in Requests : request' = req
    /\ view_kwargs' = ViewKwargs(endpoint)
    /\ pc' = "get_request_args"
    /\ UNCHANGED << endpoint, app_config, render_fieldset_model, body, kwargs,
                    request_model, fieldsets, result, response, handler_calls,
                    validations >>
    /\ UNCHANGED << pool_vars, doc_vars, text_vars >>

\* Lines 141-149: get_request_args, which may abort the request.
GetRequestArgs ==
    /\ pc = "get_request_args"
    /\ LET got == get_request_args(request, view_kwargs, endpoint.request_models,
                                   endpoint.merge_path_parameters,
                                   endpoint.rule_arguments)
       IN  IF got.abort # 0
           THEN /\ response' = AbortResponse(got.abort, got.message)
                /\ pc' = "done"
                /\ UNCHANGED << body, kwargs, request_model >>
           ELSE /\ body' = got.args
                /\ kwargs' = got.view_kwargs
                /\ request_model' = got.request_model
                /\ pc' = "validate"
                /\ UNCHANGED response
    /\ UNCHANGED << endpoint, app_config, render_fieldset_model, request,
                    view_kwargs, fieldsets, result, handler_calls, validations >>
    /\ UNCHANGED << pool_vars, doc_vars, text_vars >>

\* Lines 150-185: validation of the inputs; a ValidationError ends the request.
Validate ==
    /\ pc = "validate"
    /\ LET v == ValidateInputs(body, kwargs, request_model, endpoint,
                               render_fieldset_model)
       IN  /\ body' = v.body
           /\ fieldsets' = v.fieldsets
           /\ validations' = validations + v.validated
           /\ IF v.errors # <<>>
              THEN /\ response' = IF app_config.render_errors
                                  THEN ErrorsResponse(v.errors, app_config)
                                  ELSE ServerError("ValidationError")
                   /\ pc' = "done"
                   /\ UNCHANGED kwargs
              ELSE /\ kwargs' = v.kwargs
                   /\ pc' = "call"
                   /\ UNCHANGED response
    /\ UNCHANGED << endpoint, app_config, render_fieldset_model, request,
                    view_kwargs, request_model, result, handler_calls >>
    /\ UNCHANGED << pool_vars, doc_vars, text_vars >>

\* Line 188: sync_async_wrapper(view_func, ...) runs the handler, which
\* returns or raises; an exception leaves wrapped_endpoint.  A handler that
\* is run again ends that run in any of the ways a handler ends.
CallHandler ==
    /\ pc = "call"
    /\ \E is_coroutine_function, running_loop \in BOOLEAN, first \in HandlerOutcomes :
          LET how == sync_async_wrapper(is_coroutine_function, running_loop)
              again == RunsAgain(how, first)
          IN  \E outcome \in IF again THEN HandlerOutcomes ELSE {first} :
                 /\ handler_calls' = handler_calls + (IF again THEN 2 ELSE 1)
                 /\ IF outcome.kind = "raised"
                    THEN /\ response' = ServerError(outcome.text)
                         /\ pc' = "done"
                         /\ UNCHANGED result
                    ELSE /\ result' = outcome
                         /\ pc' = "render"
                         /\ UNCHANGED response
    /\ UNCHANGED << endpoint, app_config, render_fieldset_model, request,
                    view_kwargs, body, kwargs, request_model, fieldsets,
                    validations >>
    /\ UNCHANGED << pool_vars, doc_vars, text_vars >>

\* Lines 190-224: the result becomes the response.
Render ==
    /\ pc = "render"
    /\ response' = RenderResult(result, endpoint, render_fieldset_model, fieldsets)
    /\ pc' = "done"
    /\ UNCHANGED << endpoint, app_config, render_fieldset_model, request,
                    view_kwargs, body, kwargs, request_model, fieldsets, result,
                    handler_calls, validations >>
    /\ UNCHANGED << pool_vars, doc_vars, text_vars >>

\* The request context is torn down; the next request starts afresh.
Finish ==
    /\ pc = "done"
    /\ pc' = "idle"
    /\ request' = NoRequest
    /\ view_kwargs' = EmptyDict
    /\ body' = EmptyDict
    /\ kwargs' = EmptyDict
    /\ request_model' = None
    /\ fieldsets' = <<"list">>
    /\ result' = NoResult
    /\ response' = NoResponse
    /\ handler_calls' = 0
    /\ validations' = 0
    /\ UNCHANGED << endpoint, app_config, render_fieldset_model >>
    /\ UNCHANGED << pool_vars, doc_vars, text_vars >>

Next ==
    \/ ReceiveRequest
    \/ GetRequestArgs
    \/ Validate
    \/ CallHandler
    \/ Render
    \/ Finish

Spec == Init /\ [][Next]_vars

(***************************************************************************)
(* The threads of concurrent requests around the executor.  Each client    *)
(* request is served on a thread of its own; producing its response may    *)
(* issue an internal request to another decorated endpoint (test_client),  *)
(* which runs wrapped_endpoint again on the thread that issued it.         *)
(***************************************************************************)
\* A client request arrives: its wrapped_endpoint calls sync_async_wrapper for
\* the handler and the renderer at the top level, where no event loop runs.
Arrive(r) ==
    /\ phase[r] = "idle"
    /\ \E depth \in 0..MaxDepth, handler_async, renders \in BOOLEAN :
          /\ nesting' = [nesting EXCEPT ![r] = depth]
          /\ top_level_async' =
                [top_level_async EXCEPT ![r] =
                    \/ sync_async_wrapper(handler_async, FALSE) = "async_to_sync"
                    \/ renders /\ sync_async_wrapper(TRUE, FALSE) = "async_to_sync"]
    /\ phase' = [phase EXCEPT ![r] = "run"]
    /\ call_stack' = [call_stack EXCEPT ![r] = <<>>]
    /\ UNCHANGED << executor_queue, executor_busy >>
    /\ UNCHANGED << pipeline_vars, doc_vars, text_vars >>

\* The code producing the response issues an internal request; the nested
\* wrapped_endpoint calls sync_async_wrapper: a plain function runs in place,
\* a coroutine function under a running loop is submitted to the executor
\* (line 172) and the calling thread blocks on the future's result.
IssueNested(r) ==
    /\ phase[r] = "run"
    /\ nesting[r] > 0
    /\ \E is_coroutine_function \in BOOLEAN :
          LET how == sync_async_wrapper(is_coroutine_function,
                                        RunningLoop(top_level_async[r], call_stack[r]))
          IN  /\ call_stack' = [call_stack EXCEPT ![r] = Append(@, how)]
              /\ IF how = "executor"
                 THEN /\ executor_queue' = Append(executor_queue, r)
                      /\ phase' = [phase EXCEPT ![r] = "wait"]
                 ELSE UNCHANGED << executor_queue, phase >>
    /\ nesting' = [nesting EXCEPT ![r] = @ - 1]
    /\ UNCHANGED << top_level_async, executor_busy >>
    /\ UNCHANGED << pipeline_vars, doc_vars, text_vars >>

\* A free worker of the executor takes the oldest task of the queue and runs
\* run_in_thread.
StartTask ==
    /\ executor_queue # <<>>
    /\ executor_busy < MaxWorkers
    /\ executor_busy' = executor_busy + 1
    /\ phase' = [phase EXCEPT ![Head(executor_queue)] = "run"]
    /\ executor_queue' = Tail(executor_queue)
    /\ UNCHANGED << nesting, top_level_async, call_stack >>
    /\ UNCHANGED << pipeline_vars, doc_vars, text_vars >>

\* The innermost nested request returns its response; a task of the executor
\* ends with it, which frees its worker and unblocks the caller.
ReturnNested(r) ==
    /\ phase[r] = "run"
    /\ nesting[r] = 0
    /\ call_stack[r] # <<>>
    /\ executor_busy' =
          IF call_stack[r][Len(call_stack[r])] = "executor"
          THEN executor_busy - 1
          ELSE executor_busy
    /\ call_stack' = [call_stack EXCEPT ![r] = SubSeq(@, 1, Len(@) - 1)]
    /\ UNCHANGED << phase, nesting, top_level_async, executor_queue >>
    /\ UNCHANGED << pipeline_vars, doc_vars, text_vars >>

\* The client request completes with the handler's result.
Complete(r) ==
    /\ phase[r] = "run"
    /\ nesting[r] = 0
    /\ call_stack[r] = <<>>
    /\ phase' = [phase EXCEPT ![r] = "done"]
    /\ UNCHANGED << nesting, top_level_async, call_stack, executor_queue,
                    executor_busy >>
    /\ UNCHANGED << pipeline_vars, doc_vars, text_vars >>

\* A step of a request in flight.
PoolProgress ==
    \/ StartTask
    \/ \E r \in ClientRequests : IssueNested(r)
    \/ \E r \in ClientRequests : ReturnNested(r)
    \/ \E r \in ClientRequests : Complete(r)

PoolNext ==
    \/ \E r \in ClientRequests : Arrive(r)
    \/ PoolProgress

\* One application with pydantic_enhanced_serializer installed, serving.
PoolInit ==
    /\ endpoint = Endpoint(<<>>, CHOOSE p \in PathSetups : p.rule_arguments = {},
                           CHOOSE r \in ResponseSetups :
                               r.response_models = <<"ResponseA">>,
                           FALSE)
    /\ app_config = [render_errors |-> FALSE, error_status_code |-> <<>>]
    /\ render_fieldset_model = TRUE
    /\ PipelineIdle
    /\ PoolIdle
    /\ url_map = <<>>
    /\ schema_kwargs = NoExtraPaths
    /\ DocIdle
    /\ TextIdle

PoolSpec == PoolInit /\ [][PoolNext]_vars

(***************************************************************************)
(* get_openapi_schema: get_pydantic_api_path_operations rule by rule and   *)
(* method by method, then the caller's paths; add_response_schema on the   *)
(* document returned.                                                      *)
(***************************************************************************)
\* Longest sequence of add_response_schema calls on one document.
MaxCalls == 2

\* Most calls of get_openapi_schema on one application.
MaxDocuments == 2

\* Lines 58-62
NeedFieldsParameter(response_models, serializer) ==
    /\ serializer
    /\ response_models # <<>>
    /\ model_has_fieldsets_defined(response_models[1])

\* Lines 31-193: what the generator prepares for a rule before it loops over
\* the rule's methods.  A view that is not decorated is skipped.
StartRule ==
    /\ doc_pc = "rules"
    /\ rule_index <= Len(url_map)
    /\ LET r == url_map[rule_index]
           annotated == get_annotated_models(r.annotations)
           requested ==
               RequestBodyLoop(
                   annotated.request_models,
                   NeedFieldsParameter(annotated.response_models,
                                       render_fieldset_model),
                   r.config.get_request_model_from_query_string,
                   [request_body |-> NoRequestBody, components |-> components,
                    json_schema_extra |-> json_schema_extra, raises |-> FALSE])
           responded ==
               ResponsesOf(annotated.response_models, r.config,
                           [responses |-> EmptyDict,
                            components |-> requested.components,
                            json_schema_extra |-> requested.json_schema_extra])
       IN  IF ~r.decorated
           THEN /\ rule_index' = rule_index + 1
                /\ UNCHANGED << json_schema_extra, doc_pc, methods_left, parameters,
                                responses, request_body, components >>
           ELSE IF requested.raises
           THEN /\ doc_pc' = "raised"
                /\ json_schema_extra' = requested.json_schema_extra
                /\ UNCHANGED << rule_index, methods_left, parameters, responses,
                                request_body, components >>
           ELSE /\ doc_pc' = "methods"
                /\ methods_left' = r.methods
                /\ json_schema_extra' = requested.json_schema_extra
                /\ request_body' = requested.request_body
                /\ components' = responded.components
                /\ responses' =
                      DictUpdate(responses,
                                 [i \in {rule_index} |-> responded.responses])
                /\ parameters' =
                      DictUpdate(parameters,
                                 [i \in {rule_index} |->
                                     PathParameters(r.annotations,
                                                    RuleArguments(r.rule),
                                                    annotated.request_model_param_name)])
                /\ UNCHANGED rule_index
    /\ UNCHANGED << url_map, schema_kwargs, decorated_config, paths, calls, documents >>
    /\ UNCHANGED << pipeline_vars, pool_vars, text_vars, apidocs_response, view_models >>

\* Lines 200-214 and 221-230: what one pass of the loop over the methods
\* appends to the rule's parameters list, which every operation of the rule
\* refers to.
OperationParameters(rule_params, method, need_fields_parameter, rule_body, config) ==
    LET with_fields ==
            IF method = "get" /\ need_fields_parameter /\ rule_body.kind = "none"
            THEN Append(rule_params, FieldsQueryParameter)
            ELSE rule_params
    IN  IF rule_body.kind # "none" /\ config.get_request_model_from_query_string
        THEN Append(with_fields, QueryModelParameter(rule_body))
        ELSE with_fields

\* Lines 195-238: one pass of the loop over the rule's methods.  The
\* operation's tags are the list of the configuration when that is not empty
\* and a new list otherwise (line 217); _deep_update (lines 237-238) extends
\* the lists and merges the dicts the operation refers to in place.
AddOperation ==
    /\ doc_pc = "methods"
    /\ methods_left # <<>>
    /\ LET r == url_map[rule_index]
           method == lower(Head(methods_left))
           path == PathOf(r.rule)
           annotated == get_annotated_models(r.annotations)
           as_body == request_body.kind # "none"
                      /\ ~r.config.get_request_model_from_query_string
           extra == r.config.openapi_schema_extra
           own_tags == r.config.tags = <<>>
           operation ==
               [Operation({"tags", "parameters", "responses"}
                              \cup (IF as_body THEN {"requestBody"} ELSE {})
                              \cup (IF r.config.name # None THEN {"summary"} ELSE {})
                              \cup ({"summary", "deprecated"} \cap DOMAIN extra),
                          rule_index, rule_index,
                          IF as_body THEN request_body ELSE NoRequestBody,
                          ExtraOf(extra, "summary", r.config.name))
                   EXCEPT !.tags = IF own_tags THEN ExtraOf(extra, "tags", <<>>) ELSE <<>>,
                          !.tags_of = IF own_tags THEN 0 ELSE rule_index,
                          !.deprecated = ExtraOf(extra, "deprecated", None)]
           path_item == IF path \in DOMAIN paths THEN paths[path] ELSE EmptyDict
       IN  IF method \notin HTTP_METHODS
           THEN UNCHANGED << paths, parameters, responses, url_map >>
           ELSE /\ parameters' =
                      [parameters EXCEPT ![rule_index] =
                          OperationParameters(
                              @, method,
                              NeedFieldsParameter(annotated.response_models,
                                                  render_fieldset_model),
                              request_body, r.config)
                          \o ExtraOf(extra, "parameters", <<>>)]
                /\ responses' =
                      [responses EXCEPT ![rule_index] =
                          DeepUpdateResponses(@, ExtraOf(extra, "responses", EmptyDict))]
                /\ url_map' =
                      IF own_tags THEN url_map
                      ELSE [url_map EXCEPT ![rule_index].config.tags =
                               @ \o ExtraOf(extra, "tags", <<>>)]
                /\ paths' =
                      DictUpdate(paths,
                                 [p \in {path} |->
                                     DictUpdate(path_item,
                                                [m \in {method} |-> operation])])
    /\ methods_left' = Tail(methods_left)
    /\ IF Tail(methods_left) = <<>>
       THEN doc_pc' = "rules" /\ rule_index' = rule_index + 1
       ELSE UNCHANGED << doc_pc, rule_index >>
    /\ UNCHANGED << schema_kwargs, decorated_config, json_schema_extra,
                    request_body, components, calls, documents >>
    /\ UNCHANGED << pipeline_vars, pool_vars, text_vars, apidocs_response, view_models >>

\* The tags an operation shows.
TagsOf(operation, app) ==
    IF operation.tags_of = 0 THEN operation.tags
    ELSE app[operation.tags_of].config.tags

\* The document as a value: every operation with the lists and dicts it
\* refers to.
Document(all_paths, all_parameters, all_responses, all_components, app) ==
    [paths |->
        [p \in DOMAIN all_paths |->
            [m \in DOMAIN all_paths[p] |->
                LET operation == all_paths[p][m]
                IN  [operation EXCEPT
                       !.tags = TagsOf(operation, app),
                       !.tags_of = 0,
                       !.parameters = IF "parameters" \in operation.keys
                                      THEN all_parameters[operation.parameters]
                                      ELSE <<>>,
                       !.responses = IF "responses" \in operation.keys
                                     THEN all_responses[operation.responses]
                                     ELSE EmptyDict]]],
     components |-> all_components]

\* Lines 302-305: components = {"schemas": components} and then
\* components.update(kwargs.pop("components")), which assigns the caller's
\* value to every key the caller passes; the schemas are what the key schemas
\* holds afterwards.
ComponentsUpdate(schemas, from_kwargs) ==
    IF "schemas" \in DOMAIN from_kwargs THEN from_kwargs["schemas"] ELSE schemas

\* Lines 296-320: the generator has returned; the caller's paths are merged
\* in and the document is returned.
GetOpenapiSchema ==
    /\ doc_pc = "rules"
    /\ rule_index > Len(url_map)
    /\ paths' = DictUpdate(paths, schema_kwargs.paths)
    /\ responses' = DictUpdate(responses, schema_kwargs.responses)
    /\ components' = ComponentsUpdate(components, schema_kwargs.components)
    /\ doc_pc' = "returned"
    /\ documents' = Append(documents,
                           Document(paths', parameters, responses', components',
                                    url_map))
    /\ UNCHANGED << url_map, schema_kwargs, decorated_config, json_schema_extra,
                    rule_index, methods_left, parameters, request_body, calls >>
    /\ UNCHANGED << pipeline_vars, pool_vars, text_vars, apidocs_response, view_models >>

\* get_openapi_schema is called once more on the application: the generator
\* starts from new dicts (lines 28-29, 45-47), while the views' configuration
\* and the models are the objects the call before left.  The calls of
\* add_response_schema write to the returned document only, so the next call
\* is taken from a document that had none.
CallAgain ==
    /\ doc_pc = "returned"
    /\ calls = <<>>
    /\ Len(documents) < MaxDocuments
    /\ doc_pc' = "rules"
    /\ rule_index' = 1
    /\ methods_left' = <<>>
    /\ paths' = EmptyDict
    /\ parameters' = EmptyDict
    /\ responses' = EmptyDict
    /\ request_body' = NoRequestBody
    /\ components' = EmptyDict
    /\ UNCHANGED << url_map, schema_kwargs, decorated_config, json_schema_extra,
                    calls, documents >>
    /\ UNCHANGED << pipeline_vars, pool_vars, text_vars, apidocs_response, view_models >>

\* The operations add_response_schema looks at: those under a method of
\* HTTP_METHODS that are not an empty dict (line 271).
Visited(all_paths) ==
    { pm \in { <<p, m>> : p \in DOMAIN all_paths, m \in HTTP_METHODS } :
        /\ pm[2] \in DOMAIN all_paths[pm[1]]
        /\ all_paths[pm[1]][pm[2]].keys # {} }

\* Line 274: the operation has no entry for the status code.
LacksStatus(operation, all_responses, status_code) ==
    \/ "responses" \notin operation.keys
    \/ status_code \notin DOMAIN all_responses[operation.responses]

\* add_response_schema replacing the entry of an operation that has one.
ResponsesAfterAdd_overwrites(all_paths, all_responses, status_code, entry) ==
    [i \in DOMAIN all_responses |->
        IF \E pm \in Visited(all_paths) : all_paths[pm[1]][pm[2]].responses = i
        THEN DictUpdate(all_responses[i], [c \in {status_code} |-> entry])
        ELSE all_responses[i]]

\* Lines 268-285: the responses dicts after the loop over the operations.
ResponsesAfterAdd(all_paths, all_responses, status_code, entry) ==
    [i \in DOMAIN all_responses |->
        IF \E pm \in Visited(all_paths) :
              /\ all_paths[pm[1]][pm[2]].responses = i
              /\ LacksStatus(all_paths[pm[1]][pm[2]], all_responses, status_code)
        THEN DictUpdate(IF \E pm \in Visited(all_paths) :
                              /\ all_paths[pm[1]][pm[2]].responses = i
                              /\ "responses" \in all_paths[pm[1]][pm[2]].keys
                        THEN all_responses[i]
                        ELSE EmptyDict,
                        [c \in {status_code} |-> entry])
        ELSE all_responses[i]]

\* Lines 243-287: add_response_schema(openapi, status_code, model).
AddResponseSchema(status_code, model) ==
    /\ doc_pc = "returned"
    /\ Len(calls) < MaxCalls
    /\ calls' = Append(calls, <<status_code, model>>)
    /\ IF DOMAIN paths = {}
       THEN UNCHANGED << paths, responses, components >>
       ELSE LET title == ClassName(model)
                entry == ResponseEntry("A " \o title, <<title>>, FALSE)
            IN  /\ components' =
                      DictUpdate(components,
                                 [t \in {title} |->
                                     model_json_schema(model, "serialization",
                                                       json_schema_extra[model])])
                /\ responses' = ResponsesAfterAdd(paths, responses, status_code, entry)
                /\ paths' =
                      [p \in DOMAIN paths |->
                          [m \in DOMAIN paths[p] |->
                              IF <<p, m>> \in Visited(paths)
                              THEN [paths[p][m] EXCEPT !.keys = @ \cup {"responses"}]
                              ELSE paths[p][m]]]
    /\ UNCHANGED << url_map, schema_kwargs, decorated_config, json_schema_extra,
                    doc_pc, rule_index, methods_left, parameters, request_body,
                    documents >>
    /\ UNCHANGED << pipeline_vars, pool_vars, text_vars, apidocs_response, view_models >>

\* A view pydantic_api has not wrapped.
NotWrapped ==
    [raises |-> FALSE, request_model_param_name |-> None, request_models |-> <<>>,
     response_models |-> <<>>]

\* The module that declares the views is imported: every pydantic_api call
\* is made, in the order of the rules.  A keyword the function does not have
\* (api_wrapper.py:122-133) makes the call raise TypeError; a view with more
\* than one model parameter makes get_annotated_models raise (lines 134-137,
\* utils.py:87-91).
Decorate ==
    /\ doc_pc = "decorate"
    /\ LET failing ==
               {i \in 1..Len(url_map) :
                   /\ url_map[i].decorated
                   /\ \/ DOMAIN url_map[i].keywords # {}
                      \/ get_annotated_models(url_map[i].annotations).raises}
           wrapped == {i \in 1..Len(url_map) :
                          /\ url_map[i].decorated
                          /\ \A j \in failing : i < j}
       IN  /\ doc_pc' = IF failing = {} THEN "rules"
                        ELSE IF DOMAIN url_map[MinOf(failing)].keywords # {}
                        THEN "type_error"
                        ELSE "rejected"
           /\ view_models' =
                 [i \in 1..Len(url_map) |->
                     IF i \in wrapped
                     THEN get_annotated_models(url_map[i].annotations)
                     ELSE NotWrapped]
    /\ UNCHANGED << url_map, schema_kwargs, decorated_config, json_schema_extra,
                    rule_index, methods_left, paths, parameters, responses,
                    request_body, components, calls, documents >>
    /\ UNCHANGED << pipeline_vars, pool_vars, text_vars, apidocs_response >>

\* apidocs_views.get_openapi_spec (lines 12-21), after its call of
\* get_openapi_schema has returned: spec.model_dump_json(...) is looked up on
\* the returned object; an AttributeError leaves the view and Flask answers
\* with status 500.  document is the number of the document served.
GetOpenapiSpec ==
    /\ doc_pc = "returned"
    /\ calls = <<>>
    /\ doc_pc' = "responded"
    /\ apidocs_response' =
          IF HasAttribute(SchemaClass, "model_dump_json")
          THEN [status |-> 200, content_type |-> "application/json",
                document |-> Len(documents)]
          ELSE [status |-> 500, content_type |-> "text/html", document |-> 0]
    /\ UNCHANGED << url_map, schema_kwargs, decorated_config, json_schema_extra,
                    rule_index, methods_left, paths, parameters, responses,
                    request_body, components, calls, documents >>
    /\ UNCHANGED << pipeline_vars, pool_vars, text_vars, view_models >>

DocNext ==
    \/ Decorate
    \/ GetOpenapiSpec
    \/ StartRule
    \/ AddOperation
    \/ GetOpenapiSchema
    \/ CallAgain
    \/ \E status_code \in {"200", "400"}, model \in {"ResponseA", "ResponseB"} :
          AddResponseSchema(status_code, model)

\* The configurations of the application the naming flags are set in.
DocAppConfigs ==
    { [render_errors |-> FALSE, error_status_code |-> <<>>,
       name_from_function |-> n, description_from_docstring |-> d] :
        n \in BOOLEAN, d \in BOOLEAN }

\* An application whose module is about to be imported, before its document
\* is asked for.
DocInit ==
    /\ endpoint = Endpoint(<<>>, CHOOSE p \in PathSetups : p.rule_arguments = {},
                           CHOOSE r \in ResponseSetups :
                               r.response_models = <<"ResponseA">>,
                           FALSE)
    /\ render_fieldset_model \in BOOLEAN
    /\ PipelineIdle
    /\ PoolIdle
    /\ \/ /\ app_config \in { c \in DocAppConfigs : ~c.name_from_function
                                                     /\ ~c.description_from_docstring }
          /\ url_map \in Apps
          /\ schema_kwargs \in ExtraPaths \cup ExtraComponents
       \/ /\ app_config \in DocAppConfigs
          /\ url_map \in { <<r>> : r \in NamedRules }
          /\ schema_kwargs = NoExtraPaths
    /\ json_schema_extra = [m \in Models |-> FALSE]
    /\ doc_pc = "decorate"
    /\ rule_index = 1
    /\ methods_left = <<>>
    /\ paths = EmptyDict
    /\ parameters = EmptyDict
    /\ responses = EmptyDict
    /\ request_body = NoRequestBody
    /\ components = EmptyDict
    /\ calls = <<>>
    /\ documents = <<>>
    /\ decorated_config = url_map
    /\ apidocs_response = NoApidocsResponse
    /\ view_models = <<>>
    /\ TextIdle

DocSpec == DocInit /\ [][DocNext]_vars

(***************************************************************************)
(* unindent_text on its own: a text is given, unindent_text is called on   *)
(* it, and then once more on what it returned.                             *)
(***************************************************************************)
MaxTextLen == 8

Characters == { " ", "x", "\n" }

RECURSIVE TextsOfLen(_)
TextsOfLen(n) ==
    IF n = 0 THEN { <<>> }
    ELSE { Append(t, ch) : t \in TextsOfLen(n - 1), ch \in Characters }

Texts == UNION { TextsOfLen(n) : n \in 0..MaxTextLen }

\* unindent_text(text)
UnindentText ==
    /\ text_pc = "given"
    /\ unindented' = unindent_text(text)
    /\ text_pc' = "unindented"
    /\ UNCHANGED << text, pipeline_vars, pool_vars, doc_vars >>

\* unindent_text(unindent_text(text))
UnindentAgain ==
    /\ text_pc = "unindented"
    /\ text' = unindented
    /\ unindented' = unindent_text(unindented)
    /\ text_pc' = "again"
    /\ UNCHANGED << pipeline_vars, pool_vars, doc_vars >>

TextNext == UnindentText \/ UnindentAgain

TextInit ==
    /\ endpoint = Endpoint(<<>>, CHOOSE p \in PathSetups : p.rule_arguments = {},
                           CHOOSE r \in ResponseSetups :
                               r.response_models = <<"ResponseA">>,
                           FALSE)
    /\ app_config = [render_errors |-> FALSE, error_status_code |-> <<>>]
    /\ render_fieldset_model = TRUE
    /\ PipelineIdle
    /\ PoolIdle
    /\ url_map = <<>>
    /\ schema_kwargs = NoExtraPaths
    /\ DocIdle
    /\ text \in Texts
    /\ unindented = <<>>
    /\ text_pc = "given"

TextSpec == TextInit /\ [][TextNext]_vars

(***************************************************************************)
(* Properties.                                                             *)
(***************************************************************************)
\* get_request_args has returned for the request in progress.
ArgsRead == pc \in {"validate", "call", "render"}

\* The request in progress has ended.
Ended == pc = "done"

\* The model declares a field of type UploadedFile (read off the declaration).
DeclaresFile(model) ==
    \E i \in 1..Len(ModelFieldList(model)) :
        ModelFieldList(model)[i][2] = "UploadedFile"

\* The declared request models are one with a file field and one without.
FileAndPlainUnion ==
    /\ Len(endpoint.request_models) = 2
    /\ \E i, j \in 1..2 :
          /\ i # j
          /\ DeclaresFile(endpoint.request_models[i])
          /\ ~DeclaresFile(endpoint.request_models[j])

\* C1: for a union of one model with an UploadedFile field and one without,
\* in either order, a multipart/form-data request is validated against the
\* model with the file field and any other request against the one without.
C1_UnionDispatchAnyOrder ==
    (pc = "validate" /\ FileAndPlainUnion) =>
        (DeclaresFile(request_model) <=> request.mimetype = "multipart/form-data")

\* C2: when the only request model has an UploadedFile field and the request
\* is not multipart/form-data, the request ends with 415 and the message
\* 'multipart/form-data expected'; the handler is never invoked and no model
\* validation is attempted.
C2_SingleFileModelNeedsMultipart ==
    ( /\ pc \notin {"idle", "get_request_args"}
      /\ Len(endpoint.request_models) = 1
      /\ DeclaresFile(endpoint.request_models[1])
      /\ request.mimetype # "multipart/form-data" ) =>
        /\ Ended
        /\ response.kind = "abort"
        /\ response.status = 415
        /\ response.message = "multipart/form-data expected"
        /\ handler_calls = 0
        /\ validations = 0

C2_Witness ==
    /\ Ended
    /\ endpoint.request_models = <<"FileRequest">>
    /\ request.mimetype = "application/json"
    /\ request.json.kind = "dict"
    /\ response.status = 415

\* What get_request_args returns for the request in progress.
GotArgs ==
    get_request_args(request, view_kwargs, endpoint.request_models,
                     endpoint.merge_path_parameters, endpoint.rule_arguments)

\* The request data fails validation: the fields list is not a list of
\* strings, or the data does not fit the selected request model.
InputInvalid(got) ==
    \/ /\ render_fieldset_model
       /\ "fields" \in DOMAIN got.args
       /\ got.args["fields"][1] \notin {"str", "list"}
    \/ /\ got.request_model # None
       /\ \E i \in 1..Len(ModelFieldList(got.request_model)) :
             LET f == ModelFieldList(got.request_model)[i]
             IN  \/ f[1] \notin DOMAIN got.args
                 \/ ~FieldAccepts(f[2], got.args[f[1]])

\* C3: when the request data (or the fields list) fails validation the handler
\* is never invoked; with FLASK_PYDANTIC_API_RENDER_ERRORS set the response is
\* {"errors": [...]} with status FLASK_PYDANTIC_API_ERROR_STATUS_CODE (400 when
\* not configured), otherwise the error propagates and the request ends 500.
C3_ValidationFailure ==
    ( /\ pc \in {"call", "render", "done"}
      /\ LET got == GotArgs
         IN  got.abort = 0 /\ InputInvalid(got) ) =>
        /\ Ended
        /\ handler_calls = 0
        /\ IF app_config.render_errors
           THEN /\ response.kind = "errors_json"
                /\ response.errors # <<>>
                /\ response.status = IF app_config.error_status_code = <<>>
                                     THEN 400
                                     ELSE app_config.error_status_code[1]
           ELSE /\ response.kind = "exception"
                /\ response.status = 500

C3_Witness ==
    /\ Ended
    /\ GotArgs.abort = 0
    /\ InputInvalid(GotArgs)
    /\ request_model = "Body"
    /\ app_config.render_errors
    /\ app_config.error_status_code = <<422>>
    /\ response.status = 422
    /\ response.errors = << <<"field2", "missing">> >>

\* Some declared request model can be selected for the request's content type.
SomeModelFits ==
    \/ endpoint.request_models = <<>>
    \/ request.mimetype = "multipart/form-data"
    \/ \E i \in 1..Len(endpoint.request_models) :
          ~DeclaresFile(endpoint.request_models[i])

\* C4: every request with a JSON body whose value is not a JSON object (a
\* list, string, number, boolean or null, empty or not) ends with 400 and the
\* message 'JSON request bodies must be a dictionary'; the handler is not
\* invoked.  (Requests that no declared model fits end 415 before the body is
\* read and are left aside.)
C4_NonObjectJsonRejected ==
    ( /\ pc \notin {"idle", "get_request_args"}
      /\ SomeModelFits
      /\ request.mimetype = "application/json"
      /\ request.content_length # 0
      /\ request.json.kind \in {"list", "str", "number", "bool", "null"} ) =>
        /\ Ended
        /\ response.kind = "abort"
        /\ response.status = 400
        /\ response.message = "JSON request bodies must be a dictionary"
        /\ handler_calls = 0

\* The path parameters of the request that the endpoint merges into the data.
MergedKeys ==
    IF endpoint.merge_path_parameters
    THEN (DOMAIN view_kwargs) \cap endpoint.rule_arguments
    ELSE {}

\* The keys the request itself carries, in any of its parts.
RequestKeys ==
    (DOMAIN request.files) \cup (DOMAIN request.form) \cup (DOMAIN request.json.data)
    \cup {request.query[i][1] : i \in 1..Len(request.query)}

\* C5: a path parameter goes to exactly one place.  With merge_path_parameters
\* it is in the request data, over any body or query value of the same name,
\* and not in the handler's keyword arguments; without, it stays in the
\* keyword arguments unchanged and the data holds only what the request
\* carried.  Other keyword arguments are unchanged in both cases.
C5_PathParameters ==
    ArgsRead =>
        /\ \A k \in DOMAIN view_kwargs :
              IF k \in MergedKeys
              THEN /\ k \in DOMAIN body
                   /\ body[k] = view_kwargs[k]
                   /\ k \notin DOMAIN kwargs
              ELSE /\ k \in DOMAIN kwargs
                   /\ kwargs[k] = view_kwargs[k]
        /\ \A k \in (DOMAIN body) \ MergedKeys :
              /\ k \in RequestKeys
              /\ k \in DOMAIN view_kwargs => body[k] # view_kwargs[k]
        /\ (DOMAIN kwargs) \ {endpoint.request_model_param_name,
                              endpoint.request_fields_name}
              \subseteq DOMAIN view_kwargs

C5_Witness ==
    /\ pc = "call"
    /\ endpoint.merge_path_parameters
    /\ DOMAIN view_kwargs = {"field2", "user"}
    /\ "field2" \in DOMAIN request.json.data
    /\ request.json.data["field2"] # view_kwargs["field2"]
    /\ body["field2"] = view_kwargs["field2"]
    /\ DOMAIN kwargs = {"user", "body"}
    /\ kwargs["body"].data["field2"] = view_kwargs["field2"]

\* The part of the request the data is read from.
DataSource ==
    IF request.mimetype = "multipart/form-data" THEN "form"
    ELSE IF /\ request.mimetype = "application/json"
            /\ request.content_length # 0
            /\ request.json.truthy
    THEN "json"
    ELSE "query"

\* C6: the data handed to validation comes from exactly one source: form
\* fields and files for a multipart/form-data request; otherwise the JSON
\* object of a JSON request with a non-empty body; otherwise the query string.
\* A JSON request without a body is not rejected: it is served from the query
\* string, or with empty data.
C6_OneDataSource ==
    /\ pc = "validate" =>
          LET own == DictWithout(body, MergedKeys)
              keys == {request.query[i][1] : i \in 1..Len(request.query)}
          IN  CASE DataSource = "form" ->
                     /\ DOMAIN own = ((DOMAIN request.files) \cup (DOMAIN request.form))
                                        \ MergedKeys
                     /\ \A k \in DOMAIN own :
                           \/ k \in DOMAIN request.form /\ own[k] = request.form[k]
                           \/ k \in DOMAIN request.files /\ own[k] = request.files[k]
                [] DataSource = "json" ->
                     /\ request.json.kind = "dict"
                     /\ own = DictWithout(request.json.data, MergedKeys)
                [] DataSource = "query" ->
                     /\ DOMAIN own = keys \ MergedKeys
                     /\ \A k \in DOMAIN own :
                           \/ \E i \in 1..Len(request.query) :
                                 /\ request.query[i][1] = k
                                 /\ own[k] = Str(request.query[i][2])
                           \/ own[k] = <<"list">> \o ValuesOf(request.query, k)
    /\ ( /\ pc \notin {"idle", "get_request_args"}
         /\ SomeModelFits
         /\ request.mimetype = "application/json"
         /\ request.content_length = 0 ) => response.kind # "abort"

C6_Witness ==
    /\ pc = "validate"
    /\ request.mimetype = "application/json"
    /\ request.content_length = 0
    /\ request.query = << <<"field2", "x">> >>
    /\ MergedKeys = {}
    /\ body = [k \in {"field2"} |-> Str("x")]

\* The field of the model is annotated with a collection generic.
AnnotatedAsCollection(model, name) ==
    \E i \in 1..Len(ModelFieldList(model)) :
        /\ ModelFieldList(model)[i][1] = name
        /\ ModelFieldList(model)[i][2] \in
              {"List[str]", "Set[str]", "FrozenSet[str]", "Dict[str,str]"}

\* C7: when the data is read from the query string, a key that is a field of
\* the request model annotated as a collection receives the list of all its
\* values in order, and every other key receives its first value only.
C7_QueryStringValues ==
    (pc = "validate" /\ DataSource = "query") =>
        \A k \in {request.query[i][1] : i \in 1..Len(request.query)} \ MergedKeys :
            /\ k \in DOMAIN body
            /\ IF request_model # None /\ AnnotatedAsCollection(request_model, k)
               THEN body[k] = <<"list">> \o ValuesOf(request.query, k)
               ELSE \E i \in 1..Len(request.query) :
                       /\ request.query[i][1] = k
                       /\ \A j \in 1..(i - 1) : request.query[j][1] # k
                       /\ body[k] = Str(request.query[i][2])

C7_Witness ==
    /\ pc = "validate"
    /\ DataSource = "query"
    /\ request.query = << <<"field1", "y">>, <<"field1", "x">> >>
    /\ request_model = "Body"
    /\ body["field1"] = <<"list", "y", "x">>

\* C8: when the handler returns a model instance, the status code is the one
\* success_status_code_by_response_model maps the instance's class to, and
\* success_status_code when the map is absent or has no entry for the class;
\* the body is the serialized model.
C8_StatusCodeOfModel ==
    (Ended /\ result.kind = "model") =>
        /\ response.kind = "json"
        /\ response.status =
              IF result.cls \in DOMAIN endpoint.success_status_code_by_response_model
              THEN endpoint.success_status_code_by_response_model[result.cls]
              ELSE endpoint.success_status_code
        /\ response.value.kind = "dict"
        /\ response.value.data = result.data

C8_Witness ==
    /\ Ended
    /\ result.kind = "model"
    /\ result.cls = "ResponseB"
    /\ endpoint.success_status_code = 201
    /\ response.status = 202

\* C9: when a handler that declares response models returns a dict, the dict
\* is validated against the first declared response model and the serialized
\* model is the response; if the validation fails the request ends 500 with
\* 'pydantic model error on api response serialization'.
C9_DictResult ==
    (Ended /\ result.kind = "dict" /\ endpoint.response_models # <<>>) =>
        LET first == endpoint.response_models[1]
            fits == \A i \in 1..Len(ModelFieldList(first)) :
                       LET f == ModelFieldList(first)[i]
                       IN  /\ f[1] \in DOMAIN result.data
                           /\ FieldAccepts(f[2], result.data[f[1]])
        IN  IF fits
            THEN /\ response.kind = "json"
                 /\ response.value.kind = "dict"
                 /\ response.value.data =
                       [n \in {ModelFieldList(first)[i][1] :
                                  i \in 1..Len(ModelFieldList(first))} |-> result.data[n]]
            ELSE /\ response.kind = "exception"
                 /\ response.status = 500
                 /\ response.message =
                       "pydantic model error on api response serialization"

C9_Witness ==
    /\ Ended
    /\ result = DictResult([k \in {"field2"} |-> Str("v")])
    /\ endpoint.response_models = <<"ResponseA", "ResponseB">>
    /\ response.status = 500

\* C10: when the handler returns a value that is neither a model instance nor
\* a dict, the wrapper returns it unchanged: it is not serialized as JSON and
\* no status-code mapping is applied.
C10_OtherResultUnchanged ==
    (Ended /\ result.kind \notin {"none", "model", "dict"}) =>
        /\ response.kind = "passthrough"
        /\ response.value = result
        /\ response.status = 200

C10_Witness ==
    /\ Ended
    /\ result = StrResult("boo")
    /\ endpoint.response_models = <<"ResponseA", "ResponseB">>
    /\ endpoint.success_status_code = 201
    /\ response.kind = "passthrough"
    /\ response.status = 200

\* The fields list the request names: the value under the fields key of the
\* request data, a comma-separated string split into its items.
FieldsNamed(data, name) ==
    IF name \notin DOMAIN data THEN <<"list">>
    ELSE IF data[name][1] = "str" THEN <<"list">> \o Split(data[name][2])
    ELSE data[name]

\* C11: a handler that declares the fields parameter is called with a list for
\* it: the comma-separated value split into its items, the JSON list given
\* under the key, or the empty list when the request names no fields; and the
\* fields key is not in the data the request model is validated with.
C11_FieldsParameter ==
    (pc \in {"call", "render"} /\ endpoint.fields_in_signature) =>
        LET name == endpoint.request_fields_name
        IN  /\ name \in DOMAIN kwargs
            /\ kwargs[name][1] = "list"
            /\ kwargs[name] = FieldsNamed(GotArgs.args, name)
            /\ name \notin DOMAIN body

\* C12: every request eventually completes, also with nested internal requests
\* and with concurrent requests: blocking on the executor never leaves a
\* request waiting forever.  As a property of states: whenever a request waits
\* for a worker of the executor, some request in flight can take a step.
C12_NoRequestWaitsForever ==
    (\E r \in ClientRequests : phase[r] = "wait") => ENABLED PoolProgress

(***************************************************************************)
(* Properties of the OpenAPI document.                                     *)
(***************************************************************************)
\* get_openapi_schema has returned and the document is as it returned it.
Generated == doc_pc = "returned" /\ calls = <<>>

\* The decorated rules of the application.
DecoratedRules == {i \in 1..Len(url_map) : url_map[i].decorated}

\* The methods of the rule that the document has operations for.
OperationMethods(i) ==
    {lower(url_map[i].methods[j]) : j \in 1..Len(url_map[i].methods)}
        \cap {"get", "post", "patch", "delete", "put"}

\* The operation of the rule's method in the document.
OperationOf(i, method) == paths[PathOf(url_map[i].rule)][method]

\* The view of the rule as the wrapper sees it when a request arrives.
ViewEndpoint(i) ==
    LET annotated == get_annotated_models(url_map[i].annotations)
    IN  [request_models |-> annotated.request_models,
         response_models |-> annotated.response_models,
         success_status_code |-> url_map[i].config.success_status_code,
         success_status_code_by_response_model |->
             url_map[i].config.success_status_code_by_response_model]

\* An instance of the model, as a handler returns it.
AnInstance(model) ==
    Instance(model,
             [n \in DOMAIN model_fields(model) |->
                 IF model_fields(model)[n] = "List[str]"
                 THEN <<"list", "v">>
                 ELSE Str("v")])

\* The operation's responses hold the model's $ref under the status code.
DocLists(operation, model, status_code) ==
    /\ "responses" \in operation.keys
    /\ status_code \in DOMAIN responses[operation.responses]
    /\ LET content == responses[operation.responses][status_code].content
       IN  /\ "application/json" \in DOMAIN content
           /\ \E j \in 1..Len(content["application/json"].refs) :
                 content["application/json"].refs[j] = Title(model)

\* C13: the document and the runtime agree on status codes: for every
\* decorated endpoint and every response model M of its return annotation,
\* the document lists M under status code S for the operation exactly when
\* the runtime answers with status S for a handler result of class M.
C13_StatusCodesAgree ==
    Generated =>
        \A i \in DecoratedRules : \A method \in OperationMethods(i) :
            LET ep == ViewEndpoint(i)
            IN  \A k \in 1..Len(ep.response_models) : \A S \in {200, 201, 202} :
                    DocLists(OperationOf(i, method), ep.response_models[k], str(S))
                    <=> RenderResult(AnInstance(ep.response_models[k]), ep,
                                     render_fieldset_model, <<"list">>).status = S

C13_Witness ==
    /\ Generated
    /\ Len(url_map) = 1
    /\ ViewEndpoint(1).response_models = <<"ResponseA", "ResponseB">>
    /\ ViewEndpoint(1).success_status_code = 201
    /\ DocLists(OperationOf(1, "get"), "ResponseB", "202")
    /\ DocLists(OperationOf(1, "get"), "ResponseA", "201")
    /\ ~DocLists(OperationOf(1, "get"), "ResponseB", "201")
    /\ RenderResult(AnInstance("ResponseB"), ViewEndpoint(1), render_fieldset_model,
                    <<"list">>).status = 202

\* A request of the content type, as a client sends it.
RequestOfType(content_type) ==
    [mimetype |-> content_type, content_length |-> 1,
     json |-> IF content_type = "application/json"
              THEN JsonObject([k \in {"field1"} |-> Str("j")])
              ELSE NoJson,
     files |-> EmptyDict, form |-> EmptyDict, query |-> <<>>]

\* The request model the wrapper selects for a request of the content type;
\* None when the request is refused.
SelectedFor(ep, content_type) ==
    get_request_args(RequestOfType(content_type), EmptyDict, ep.request_models,
                     FALSE, {}).request_model

\* C14: the document and the runtime agree on request models: for an endpoint
\* with a union of request models, each content type listed in the requestBody
\* points to the model the runtime selects for a request of that content type,
\* and every declared request model is listed under some content type.
C14_RequestModelsAgree ==
    Generated =>
        \A i \in DecoratedRules : \A method \in OperationMethods(i) :
            LET ep == ViewEndpoint(i)
                operation == OperationOf(i, method)
            IN  (Len(ep.request_models) > 1 /\ "requestBody" \in operation.keys) =>
                    /\ \A c \in DOMAIN operation.requestBody.content :
                          operation.requestBody.content[c] = SelectedFor(ep, c)
                    /\ \A k \in 1..Len(ep.request_models) :
                          \E c \in DOMAIN operation.requestBody.content :
                              operation.requestBody.content[c] = ep.request_models[k]

\* The status code the endpoint's configuration gives the model.
MapsTo(model, ep) ==
    IF model \in DOMAIN ep.success_status_code_by_response_model
    THEN ep.success_status_code_by_response_model[model]
    ELSE ep.success_status_code

\* " or ".join(titles)
RECURSIVE JoinOr(_)
JoinOr(titles) ==
    IF Len(titles) = 1 THEN titles[1]
    ELSE titles[1] \o " or " \o JoinOr(Tail(titles))

\* C15: when two or more response models of an endpoint map to the same status
\* code, that code's application/json schema is one oneOf list with exactly one
\* $ref per such model in declared order, and its description joins their
\* titles with ' or ' (after the article the first title gets); a model alone
\* under its status code gets an entry with a plain $ref.
C15_OneOfPerStatusCode ==
    Generated =>
        \A i \in DecoratedRules : \A method \in OperationMethods(i) :
            LET ep == ViewEndpoint(i)
                listed == responses[OperationOf(i, method).responses]
            IN  \A S \in {200, 201, 202} :
                    LET models == SelectSeq(ep.response_models,
                                            LAMBDA m : MapsTo(m, ep) = S)
                        group == [k \in 1..Len(models) |-> Title(models[k])]
                    IN  group # <<>> =>
                            /\ str(S) \in DOMAIN listed
                            /\ "application/json" \in DOMAIN listed[str(S)].content
                            /\ listed[str(S)].content["application/json"] =
                                  [oneOf |-> Len(group) > 1, refs |-> group]
                            /\ listed[str(S)].description = "A " \o JoinOr(group)

C15_Witness ==
    /\ Generated
    /\ Len(url_map) = 1
    /\ ViewEndpoint(1).response_models = <<"ResponseA", "ResponseB", "FieldsetResponse">>
    /\ LET listed == responses[OperationOf(1, "get").responses]
       IN  /\ DOMAIN listed = {"201", "202"}
           /\ listed["201"].content["application/json"] =
                 [oneOf |-> TRUE, refs |-> <<"ResponseA", "FieldsetResponse">>]
           /\ listed["201"].description = "A ResponseA or FieldsetResponse"
           /\ listed["202"].content["application/json"] =
                 [oneOf |-> FALSE, refs |-> <<"ResponseB">>]

\* The rule with every variable written as {name}.
BracedPath(rule) ==
    [k \in 1..Len(rule) |->
        IF rule[k][1] = "var" THEN "{" \o rule[k][3] \o "}" ELSE rule[k][2]]

\* The parameter schema that goes with a converter.
ConverterSchema(converter) ==
    CASE converter = "int"              -> <<"type", "integer", "minimum", "0">>
      [] converter = "int(signed=True)" -> <<"type", "integer">>
      [] OTHER                          -> <<"type", "string">>

\* C16: every URL rule variable is rendered in the path key as {name}, also
\* when the rule gives it a converter, and the path parameter's schema follows
\* the converter: {type: integer, minimum: 0} for int, {type: integer} for a
\* signed int, {type: string} without a converter.
C16_PathVariables ==
    Generated =>
        \A i \in DecoratedRules :
            LET rule == url_map[i].rule
            IN  /\ BracedPath(rule) \in DOMAIN paths
                /\ \A method \in OperationMethods(i) :
                      /\ method \in DOMAIN paths[BracedPath(rule)]
                      /\ \A k \in {j \in 1..Len(rule) : rule[j][1] = "var"} :
                            \A n \in 1..Len(parameters[paths[BracedPath(rule)][method].parameters]) :
                                LET param == parameters[paths[BracedPath(rule)][method].parameters][n]
                                IN  (param.in = "path" /\ param.name = rule[k][3]) =>
                                        param.schema = ConverterSchema(rule[k][2])

\* The rule arguments the handler annotates, the request-model parameter
\* left out.
AnnotatedArguments(i) ==
    LET r == url_map[i]
    IN  ({r.annotations[k][1] : k \in 1..Len(r.annotations)}
            \cap RuleArguments(r.rule))
        \ {get_annotated_models(r.annotations).request_model_param_name, "return"}

\* The request models of the rule's view.
RequestModelsOf(i) ==
    LET request_models == get_annotated_models(url_map[i].annotations).request_models
    IN  {request_models[k] : k \in 1..Len(request_models)}

\* The places of the operation's parameters list that hold a path parameter
\* of that name.
PathParameterPlaces(operation, name) ==
    {n \in 1..Len(parameters[operation.parameters]) :
        /\ parameters[operation.parameters][n].in = "path"
        /\ parameters[operation.parameters][n].name = name}

\* C17: each URL rule argument the handler annotates, other than the
\* request-model parameter, appears exactly once as a required path parameter
\* of every operation of the rule, whether or not the request model has a
\* field of the same name; and a path argument is among the properties of the
\* request model's schema only if the model declares that field.
C17_PathArguments ==
    Generated =>
        \A i \in DecoratedRules :
            /\ \A method \in OperationMethods(i) :
                  \A name \in AnnotatedArguments(i) :
                      LET places == PathParameterPlaces(OperationOf(i, method), name)
                      IN  /\ Cardinality(places) = 1
                          /\ \A n \in places :
                                parameters[OperationOf(i, method).parameters][n].required
                                    = "true"
            /\ \A model \in Models :
                  \A name \in RuleArguments(url_map[i].rule) :
                      (/\ model \in RequestModelsOf(i)
                       /\ Title(model) \in DOMAIN components
                       /\ name \in DOMAIN components[Title(model)].properties)
                          => name \in DOMAIN model_fields(model)

\* A document was generated for a rule that accepts two methods, whose
\* handler annotates a rule argument that its request model also declares.
C17_Witness ==
    /\ Generated
    /\ \E i \in DecoratedRules :
          /\ Cardinality(OperationMethods(i)) = 2
          /\ \E name \in AnnotatedArguments(i) :
                \E model \in Models :
                    /\ model \in RequestModelsOf(i)
                    /\ name \in DOMAIN model_fields(model)
                    /\ name \in DOMAIN components[Title(model)].properties
                    /\ \A method \in OperationMethods(i) :
                          PathParameterPlaces(OperationOf(i, method), name) # {}

\* The rules decorated with get_request_model_from_query_string=True whose
\* view takes a request model.
QueryStringRulesOf(app) ==
    {i \in 1..Len(app) :
        /\ app[i].decorated
        /\ app[i].config.get_request_model_from_query_string
        /\ Len(get_annotated_models(app[i].annotations).request_models) = 1}

\* The parameters list the operations of such a rule are to have: the path
\* parameters, then one query parameter for the request model.
PathThenQueryModel(i) ==
    LET r == url_map[i]
        annotated == get_annotated_models(r.annotations)
    IN  PathParameters(r.annotations, RuleArguments(r.rule),
                       annotated.request_model_param_name)
        \o << [name |-> None, in |-> "query", required |-> None, type |-> "form",
               explode |-> "true",
               schema |-> <<"$ref", Title(annotated.request_models[1])>>] >>

\* C18: for an endpoint decorated with get_request_model_from_query_string,
\* every operation generated for its rule has no requestBody, and its
\* parameters list is exactly the path parameters followed by one single query
\* parameter {in: query, type: form, explode: true, schema: $ref to the request
\* model}; so it is for each method of a rule that accepts several methods.
C18_QueryStringModel ==
    Generated =>
        \A i \in QueryStringRulesOf(url_map) :
            \A method \in OperationMethods(i) :
                /\ "requestBody" \notin OperationOf(i, method).keys
                /\ parameters[OperationOf(i, method).parameters] = PathThenQueryModel(i)

\* The decorated rules whose response model defines fieldsets.
FieldsetRulesOf(app) ==
    {i \in 1..Len(app) :
        /\ app[i].decorated
        /\ LET response_models ==
                   get_annotated_models(app[i].annotations).response_models
           IN  /\ response_models # <<>>
               /\ model_has_fieldsets_defined(response_models[1])}

\* The places of the operation's parameters list that hold a query parameter
\* called fields.
FieldsParameterPlaces(operation) ==
    {n \in 1..Len(parameters[operation.parameters]) :
        /\ parameters[operation.parameters][n].in = "query"
        /\ parameters[operation.parameters][n].name = "fields"}

\* C19: with the serializer installed, for an endpoint whose response model
\* defines fieldsets: a GET operation without a request body carries exactly
\* one optional query parameter fields of type string; an operation with a
\* request body has instead an array-of-strings property fields in the request
\* model's schema, not listed as required; operations of other methods of the
\* rule carry no fields query parameter.
C19_FieldsDocumented ==
    (Generated /\ render_fieldset_model) =>
        \A i \in FieldsetRulesOf(url_map) :
            \A method \in OperationMethods(i) :
                LET operation == OperationOf(i, method)
                    places == FieldsParameterPlaces(operation)
                IN  IF "requestBody" \in operation.keys
                    THEN /\ places = {}
                         /\ \A model \in RequestModelsOf(i) :
                               LET schema == components[Title(model)]
                               IN  /\ "fields" \in DOMAIN schema.properties
                                   /\ schema.properties["fields"].type = "array"
                                   /\ schema.properties["fields"].items = "string"
                                   /\ "fields" \notin schema.required
                    ELSE IF method = "get"
                    THEN /\ Cardinality(places) = 1
                         /\ \A n \in places :
                               LET param == parameters[operation.parameters][n]
                               IN  /\ param.required = "false"
                                   /\ param.schema = <<"type", "string">>
                    ELSE places = {}

(***************************************************************************)
(* Properties of add_response_schema, stated on the steps that call it.    *)
(***************************************************************************)
\* Every operation of every path of the document.
AllOperations(all_paths) ==
    UNION { { <<p, m>> : m \in DOMAIN all_paths[p] } : p \in DOMAIN all_paths }

\* The responses of an operation; none when it has no such key.
ResponsesIn(operation, all_responses) ==
    IF "responses" \in operation.keys THEN all_responses[operation.responses]
    ELSE EmptyDict

\* The step is a call of add_response_schema.
IsCall == calls' # calls

LastStatusCode == calls'[Len(calls')][1]

LastModel == calls'[Len(calls')][2]

\* The document is the same after the step as before it.
SameDocument ==
    /\ components' = components
    /\ AllOperations(paths') = AllOperations(paths)
    /\ \A pm \in AllOperations(paths) :
          LET before == paths[pm[1]][pm[2]]
              after == paths'[pm[1]][pm[2]]
          IN  /\ after.keys = before.keys
              /\ ResponsesIn(after, responses') = ResponsesIn(before, responses)
              /\ [after EXCEPT !.responses = 0] = [before EXCEPT !.responses = 0]
              /\ "parameters" \in before.keys =>
                    parameters'[after.parameters] = parameters[before.parameters]

\* What the call does to the document when the operations it is to add the
\* entry to are those of the set ops.
CallAdds(ops) ==
    LET title == ClassName(LastModel)
    IN  /\ title \in DOMAIN components'
        /\ components'[title].title = title
        /\ DOMAIN components'[title].properties = DOMAIN model_fields(LastModel)
        /\ \A t \in DOMAIN components' \ {title} :
              t \in DOMAIN components /\ components'[t] = components[t]
        /\ DOMAIN components \subseteq DOMAIN components'
        /\ AllOperations(paths') = AllOperations(paths)
        /\ \A pm \in AllOperations(paths) :
              LET before == paths[pm[1]][pm[2]]
                  after == paths'[pm[1]][pm[2]]
                  had == ResponsesIn(before, responses)
                  has == ResponsesIn(after, responses')
              IN  /\ \A s \in DOMAIN had : s \in DOMAIN has /\ has[s] = had[s]
                  /\ IF pm \in ops /\ LastStatusCode \notin DOMAIN had
                     THEN /\ DOMAIN has = DOMAIN had \cup {LastStatusCode}
                          /\ has[LastStatusCode].content["application/json"].refs
                                = <<title>>
                          /\ after.keys = before.keys \cup {"responses"}
                     ELSE /\ DOMAIN has = DOMAIN had
                          /\ after.keys = before.keys
                  /\ [after EXCEPT !.responses = 0, !.keys = {}]
                        = [before EXCEPT !.responses = 0, !.keys = {}]
                  /\ "parameters" \in before.keys =>
                        parameters'[after.parameters] = parameters[before.parameters]

\* The call repeats the call before it.
RepeatsCall == calls # <<>> /\ calls[Len(calls)] = calls'[Len(calls')]

\* C20: add_response_schema(openapi, status_code, model) adds the model's
\* schema to components.schemas and a response entry for status_code, which
\* refers to that schema, to every operation of every path that has no entry
\* for status_code yet; it leaves every existing response entry and everything
\* else in the document unchanged, returns a document without paths
\* untouched, and applied twice gives what it gives applied once.
C20_AddResponseSchema ==
    [][IsCall =>
          /\ DOMAIN paths = {} => SameDocument
          /\ DOMAIN paths # {} => CallAdds(AllOperations(paths))
          /\ RepeatsCall => SameDocument]_vars

\* C20 as the code has it: the entry is added to the operations under get,
\* post, patch, delete and put that are not an empty object; an operation
\* under another method (head, options) and an empty operation stay as they
\* are.
C20_AddResponseSchema_Visited ==
    [][IsCall =>
          /\ DOMAIN paths = {} => SameDocument
          /\ DOMAIN paths # {} => CallAdds(Visited(paths))
          /\ RepeatsCall => SameDocument]_vars

\* add_response_schema was applied twice with the same arguments to a
\* document in which an operation had an entry for another status code and
\* got the new one, and an operation under options was passed over.
C20_Witness ==
    /\ doc_pc = "returned"
    /\ Len(calls) = 2
    /\ calls[1] = calls[2]
    /\ \E pm \in Visited(paths) :
          LET has == ResponsesIn(paths[pm[1]][pm[2]], responses)
          IN  /\ calls[1][1] \in DOMAIN has
              /\ has[calls[1][1]].content = ResponseEntry("", <<ClassName(calls[1][2])>>, FALSE).content
              /\ \E s \in DOMAIN has : s # calls[1][1]
    /\ \E pm \in AllOperations(paths) \ Visited(paths) :
          calls[1][1] \notin DOMAIN ResponsesIn(paths[pm[1]][pm[2]], responses)

(***************************************************************************)
(* Properties of openapi_schema_extra and of what the layer keeps.         *)
(***************************************************************************)
\* The decorated rules whose view declares an openapi_schema_extra.
RulesWithExtra ==
    {i \in DecoratedRules : DOMAIN decorated_config[i].config.openapi_schema_extra # {}}

\* The parameters the generator writes for a rule that takes neither a fields
\* nor a query-string parameter.
GeneratedParameters(i) ==
    PathParameters(decorated_config[i].annotations,
                   RuleArguments(decorated_config[i].rule),
                   get_annotated_models(decorated_config[i].annotations)
                       .request_model_param_name)

\* What the operation holds under the keys the extra does not name is what the
\* generator wrote.
KeepsGenerated(i, operation, extra) ==
    LET config == decorated_config[i].config
        listed == responses[operation.responses]
    IN  /\ "tags" \notin DOMAIN extra => TagsOf(operation, url_map) = config.tags
        /\ "parameters" \notin DOMAIN extra =>
              parameters[operation.parameters] = GeneratedParameters(i)
        /\ "summary" \notin DOMAIN extra =>
              /\ operation.summary = config.name
              /\ "summary" \in operation.keys <=> config.name # None
        /\ "deprecated" \notin DOMAIN extra => "deprecated" \notin operation.keys
        /\ DOMAIN listed = {"200"} \cup DOMAIN ExtraOf(extra, "responses", EmptyDict)
        /\ "application/json" \in DOMAIN listed["200"].content
        /\ listed["200"].content["application/json"] =
              [oneOf |-> FALSE, refs |-> <<"Body">>]
        /\ listed["200"].description = "A Body"

\* What the operation holds under the keys the extra names: lists are the
\* generator's followed by the extra's, dicts hold the extra's keys beside the
\* generator's, other values are the extra's.
MergesExtra(i, operation, extra) ==
    LET config == decorated_config[i].config
        listed == responses[operation.responses]
    IN  /\ "tags" \in DOMAIN extra =>
              TagsOf(operation, url_map) = config.tags \o extra["tags"]
        /\ "parameters" \in DOMAIN extra =>
              parameters[operation.parameters]
                  = GeneratedParameters(i) \o extra["parameters"]
        /\ "summary" \in DOMAIN extra =>
              operation.summary = extra["summary"] /\ "summary" \in operation.keys
        /\ "deprecated" \in DOMAIN extra =>
              /\ operation.deprecated = extra["deprecated"]
              /\ "deprecated" \in operation.keys
        /\ "responses" \in DOMAIN extra =>
              \A c \in DOMAIN extra["responses"] :
                  LET named == extra["responses"][c]
                  IN  /\ "description" \in DOMAIN named =>
                            listed[c].description = named["description"]
                      /\ "content" \in DOMAIN named =>
                            \A t \in DOMAIN named["content"] :
                                /\ t \in DOMAIN listed[c].content
                                /\ listed[c].content[t] = named["content"][t]

\* C21: openapi_schema_extra is deep-merged into the generated operation:
\* every key the generator produced that the extra does not name is kept,
\* nested dicts are merged key by key, lists are concatenated and other values
\* replaced by the extra's; the merge touches only the operations of the
\* endpoint that declared the extra.
C21_ExtraDeepMerged ==
    (Generated /\ Len(documents) = 1) =>
        \A i \in DecoratedRules : \A method \in OperationMethods(i) :
            LET extra == decorated_config[i].config.openapi_schema_extra
                operation == OperationOf(i, method)
            IN  (\/ i \in RulesWithExtra
                 \/ (RulesWithExtra # {} /\ decorated_config[i] = PlainRule))
                    => /\ KeepsGenerated(i, operation, extra)
                       /\ MergesExtra(i, operation, extra)

\* The decorated rules whose view declares no openapi_schema_extra.
RulesWithoutExtra == DecoratedRules \ RulesWithExtra

\* The operations of the rule show the name and the description the view
\* was decorated with, and neither key without them and without a flag.
ShowsNameAndDescription(i) ==
    LET r == decorated_config[i]
    IN  \A method \in OperationMethods(i) :
            LET operation == OperationOf(i, method)
            IN  /\ r.config.name # None =>
                      /\ "summary" \in operation.keys
                      /\ operation.summary = r.config.name
                /\ "description" \in DOMAIN r.keywords =>
                      /\ "description" \in operation.keys
                      /\ operation.description
                            = unindent_text(r.keywords["description"])
                /\ (/\ r.config.name = None
                    /\ "description" \notin DOMAIN r.keywords
                    /\ ~app_config.name_from_function
                    /\ ~app_config.description_from_docstring)
                      => /\ "summary" \notin operation.keys
                         /\ "description" \notin operation.keys

\* C22: pydantic_api accepts name and description; the generated operation's
\* summary is the name and its description the unindented description; with
\* neither given and no flag set the operation has neither key, whatever the
\* handler's docstring.
C22_NameAndDescription ==
    /\ doc_pc = "type_error" =>
          \E i \in 1..Len(url_map) :
              DOMAIN decorated_config[i].keywords \ {"description"} # {}
    /\ Generated => \A i \in RulesWithoutExtra : ShowsNameAndDescription(i)

\* The function name in title case with its underscores turned into spaces.
FunctionTitle(func_name) ==
    CASE func_name = "get_foo" -> "Get Foo"
      [] func_name = "do_work" -> "Do Work"
      [] OTHER                 -> func_name

\* C23: with FLASK_PYDANTIC_API_NAME_FROM_FUNCTION set, an endpoint decorated
\* without a name gets as summary its function name in title case with the
\* underscores turned into spaces; with
\* FLASK_PYDANTIC_API_DESCRIPTION_FROM_DOCSTRING set, an endpoint decorated
\* without a description gets as description its unindented docstring.
C23_DefaultsFromFunction ==
    Generated =>
        \A i \in RulesWithoutExtra : \A method \in OperationMethods(i) :
            LET r == decorated_config[i]
                operation == OperationOf(i, method)
            IN  /\ (app_config.name_from_function /\ r.config.name = None) =>
                      /\ "summary" \in operation.keys
                      /\ operation.summary = FunctionTitle(r.func_name)
                /\ (/\ app_config.description_from_docstring
                    /\ "description" \notin DOMAIN r.keywords
                    /\ r.doc # <<>>) =>
                      /\ "description" \in operation.keys
                      /\ operation.description = unindent_text(r.doc)

\* C24: a GET on the apidocs blueprint's /openapi.json route answers with
\* status 200, content type application/json and a body that is the JSON
\* serialization of the document get_openapi_schema returns for the
\* application.
C24_ApidocsServesDocument ==
    doc_pc = "responded" =>
        /\ apidocs_response.status = 200
        /\ apidocs_response.content_type = "application/json"
        /\ apidocs_response.document = Len(documents)


\* C25: the layer keeps no state between operations: every endpoint's
\* configuration (its tags and openapi_schema_extra) and every model's
\* model_config stay what they were right after decoration, so two
\* get_openapi_schema calls on one application return equal documents.
C25_NoStateKept ==
    /\ \A i \in DOMAIN url_map : url_map[i].config = decorated_config[i].config
    /\ \A model \in Models : ~json_schema_extra[model]
    /\ \A first, second \in DOMAIN documents : documents[first] = documents[second]


(***************************************************************************)
(* Properties of unindent_text.                                            *)
(***************************************************************************)
\* The lines of the argument without their trailing whitespace.
GivenLines ==
    LET split == SplitLines(text, <<>>)
    IN  [k \in 1..Len(split) |-> RStrip(split[k])]

\* The lines of the result.
ResultLines == SplitLines(unindented, <<>>)

\* The lines of the argument that are not blank.
NonBlank == {k \in 1..Len(GivenLines) : GivenLines[k] # <<>>}

\* The largest indentation common to the lines that are not blank.
CommonIndent == MinOf({LeadingSpaces(GivenLines[k]) : k \in NonBlank})

\* The result line is the given line without its first indent characters.
IsCutOf(result_line, given_line, indent) ==
    IF given_line = <<>> THEN result_line = <<>>
    ELSE /\ Len(given_line) = indent + Len(result_line)
         /\ \A c \in 1..indent : IsSpace(given_line[c])
         /\ \A c \in 1..Len(result_line) : result_line[c] = given_line[indent + c]

\* C26: unindent_text removes the leading and trailing blank lines, the
\* trailing whitespace of every line and the largest indentation common to
\* the non-empty lines, keeps interior blank lines and relative indentation,
\* turns a text of blank lines only into the empty string, and changes
\* nothing when applied to its own result.
C26_UnindentText ==
    /\ text_pc = "unindented" =>
          IF NonBlank = {} THEN unindented = <<>>
          ELSE LET first == MinOf(NonBlank)
                   last == CHOOSE k \in NonBlank : \A j \in NonBlank : j <= k
               IN  /\ Len(ResultLines) = last - first + 1
                   /\ ResultLines[1] # <<>>
                   /\ ResultLines[Len(ResultLines)] # <<>>
                   /\ \A j \in 1..Len(ResultLines) :
                         /\ RStrip(ResultLines[j]) = ResultLines[j]
                         /\ IsCutOf(ResultLines[j], GivenLines[first + j - 1],
                                    CommonIndent)
                   /\ \E j \in 1..Len(ResultLines) :
                         ResultLines[j] # <<>> /\ LeadingSpaces(ResultLines[j]) = 0
    /\ text_pc = "again" => unindented = text

\* An indented text with a leading blank line, trailing whitespace and an
\* interior blank line has been unindented.
C26_Witness ==
    /\ text_pc = "unindented"
    /\ text = << "\n", " ", "x", " ", "\n", "\n", " ", "x" >>
    /\ unindented = << "x", "\n", "\n", "x" >>


(***************************************************************************)
(* Properties of the handler call.                                         *)
(***************************************************************************)
\* C27: for every request the wrapper invokes the handler at most once,
\* whatever the handler returns or raises.
C27_HandlerCalledOnce == handler_calls <= 1


\* C28: whenever a handler that declares a request-model parameter is
\* invoked, that parameter holds a validated instance of one of the declared
\* models; when every declared model has an UploadedFile field and the
\* request is not multipart, the request ends with 415 and the handler is not
\* invoked.
C28_RequestModelArgument ==
    /\ (handler_calls >= 1 /\ endpoint.request_models # <<>>) =>
          LET name == endpoint.request_model_param_name
          IN  /\ name \in DOMAIN kwargs
              /\ kwargs[name].kind = "model"
              /\ \E i \in 1..Len(endpoint.request_models) :
                    kwargs[name].cls = endpoint.request_models[i]
              /\ DOMAIN kwargs[name].data = DOMAIN model_fields(kwargs[name].cls)
              /\ ValidationErrors(kwargs[name].cls, kwargs[name].data) = <<>>
    /\ ( /\ pc \notin {"idle", "get_request_args"}
         /\ request.mimetype # "multipart/form-data"
         /\ endpoint.request_models # <<>>
         /\ \A i \in 1..Len(endpoint.request_models) :
               DeclaresFile(endpoint.request_models[i]) ) =>
          /\ pc = "done"
          /\ response.kind = "abort"
          /\ response.status = 415
          /\ handler_calls = 0

\* A handler declaring a union was invoked with an instance of its second
\* model.
C28_Witness ==
    /\ handler_calls = 1
    /\ endpoint.request_models = <<"FileRequest", "OtherRequest">>
    /\ kwargs["body"].cls = "OtherRequest"

\* A request that is not multipart for a union of models with files ended
\* with 415.
C28_Witness_Unsupported ==
    /\ pc = "done"
    /\ endpoint.request_models = <<"FileRequest", "FileRequest2">>
    /\ ~request_is_multipart(request)
    /\ response.status = 415


(***************************************************************************)
(* Properties of the model inference at decoration.                        *)
(***************************************************************************)
\* The positions, in __annotations__, of the parameters annotated as a model
\* or as a union made only of models.
ModelParameters(annotations) ==
    {i \in 1..Len(annotations) :
        /\ annotations[i][1] # "return"
        /\ annotations[i][2] # <<>>
        /\ \A k \in 1..Len(annotations[i][2]) : annotations[i][2][k] \in Models}

\* The list holds the model members of the annotation in declared order.
HoldsModelMembers(list, annotation) ==
    LET members == {k \in 1..Len(annotation) : annotation[k] \in Models}
    IN  /\ Len(list) = Cardinality(members)
        /\ \A j \in 1..Len(list) :
              \E k \in members :
                 /\ Cardinality({h \in members : h <= k}) = j
                 /\ list[j] = annotation[k]

\* C29: a handler with more than one parameter annotated as a model or as a
\* union made only of models is rejected when it is decorated, before any
\* document or request; otherwise the request-model parameter name and the
\* request-model list are both absent or both present, the list holding the
\* annotation's models in declared order, and the response-model list holds
\* the model members of the return annotation in declared order.
C29_ModelInference ==
    LET views == {i \in DOMAIN url_map : url_map[i].decorated}
        many == {i \in views : Cardinality(ModelParameters(url_map[i].annotations)) > 1}
    IN  /\ (doc_pc # "decorate" /\ many # {}) =>
              /\ doc_pc \in {"rejected", "type_error"}
              /\ documents = <<>>
              /\ \A i \in many : view_models[i] = NotWrapped
        /\ doc_pc = "rejected" => many # {}
        /\ doc_pc \notin {"decorate", "rejected", "type_error"} =>
              \A i \in views :
                 LET annotations == url_map[i].annotations
                     params == ModelParameters(annotations)
                     got == view_models[i]
                 IN  /\ ~got.raises
                     /\ IF params = {}
                        THEN /\ got.request_model_param_name = None
                             /\ got.request_models = <<>>
                        ELSE \E k \in params :
                                /\ got.request_model_param_name = annotations[k][1]
                                /\ got.request_models = annotations[k][2]
                     /\ HoldsModelMembers(got.response_models,
                                          AnnotationOf(annotations, "return"))

\* A view whose parameter is a union with None and whose return annotation
\* has members that are no models has been decorated.
C29_Witness ==
    /\ doc_pc = "rules"
    /\ Len(url_map) = 1
    /\ url_map[1].annotations =
          << <<"body", <<"OtherRequest", "None">> >>,
             <<"return", <<"dict", "ResponseB", "ResponseA">> >> >>
    /\ view_models[1].request_models = <<>>
    /\ view_models[1].response_models = <<"ResponseB", "ResponseA">>

\* A view with two model parameters has been rejected.
C29_Witness_Rejected ==
    /\ doc_pc = "rejected"
    /\ \E i \in DOMAIN url_map : Len(ViewModelArgs(url_map[i].annotations)) = 2


(***************************************************************************)
(* Properties of the references to components.schemas.                     *)
(***************************************************************************)
\* The titles the operation refers to as '#/components/schemas/<title>': in
\* its request body, in its parameters and in its responses.
ReferencesOf(operation) ==
    LET in_body == IF "requestBody" \in operation.keys
                THEN {operation.requestBody.content[c] :
                         c \in DOMAIN operation.requestBody.content}
                ELSE {}
        listed == IF "parameters" \in operation.keys
                  THEN parameters[operation.parameters]
                  ELSE <<>>
        in_parameters == {listed[n].schema[2] :
                             n \in {k \in 1..Len(listed) : listed[k].schema[1] = "$ref"}}
        entries == ResponsesIn(operation, responses)
        in_responses ==
            UNION { UNION { {entries[c].content[t].refs[j] :
                                j \in 1..Len(entries[c].content[t].refs)} :
                            t \in {u \in DOMAIN entries[c].content :
                                      "refs" \in DOMAIN entries[c].content[u]} } :
                    c \in DOMAIN entries }
    IN  in_body \cup in_parameters \cup in_responses

\* components.schemas holds under the model's title the schema of that model.
HoldsSchemaOf(model) ==
    /\ Title(model) \in DOMAIN components
    /\ components[Title(model)].model = model

\* C30: in every document get_openapi_schema returns, each reference under
\* paths names a key of components.schemas, and that entry is the schema of
\* the model the reference was written for.
C30_ReferencesResolve ==
    Generated =>
        /\ \A pm \in AllOperations(paths) :
              ReferencesOf(paths[pm[1]][pm[2]]) \subseteq DOMAIN components
        /\ \A i \in DecoratedRules : \A method \in OperationMethods(i) :
              PathOf(url_map[i].rule) \notin DOMAIN schema_kwargs.paths =>
                 LET ep == ViewEndpoint(i)
                     operation == OperationOf(i, method)
                 IN  /\ \A k \in 1..Len(ep.response_models) :
                           HoldsSchemaOf(ep.response_models[k])
                     /\ "requestBody" \in operation.keys =>
                           \A k \in 1..Len(ep.request_models) :
                              HoldsSchemaOf(ep.request_models[k])

====
